---- MODULE Spec2Model ----
(***************************************************************************)
(* A model of the Android emulator MCP server (src/server.py) and of the   *)
(* UI-dump scraping of the certificate installer (src/cert_installer.py).  *)
(*                                                                         *)
(* Texts that the code inspects (substring tests, splits, replacements,    *)
(* XML and JSON parsing) are sequences of tokens: a token is a non-empty   *)
(* string, and every text is cut so that the words the code searches for   *)
(* ("Error", "No matching elements", ":\n", "UI Hierarchy:\n") are tokens  *)
(* of their own wherever they occur.  A bounds attribute is a sequence of  *)
(* one-character tokens, so that the digit runs are computed.              *)
(***************************************************************************)
EXTENDS Integers, Sequences, FiniteSets, TLC

VARIABLES current_device, adb_path, call, sleeping, installer, files, script, tools

vars == <<current_device, adb_path, call, sleeping, installer, files, script, tools>>

----------------------------------------------------------------------------
(* Python values *)

\* Python's None, as the value of current_device before any selection.
None == "<None>"

\* Python truthiness of a str-or-None value.
Truthy(v) == v # None /\ v # ""

\* The empty dict (arguments without any field).
EmptyDict == [k \in {} |-> <<>>]

Has(d, k) == k \in DOMAIN d

\* str(KeyError(k))
KeyErrorMsg(k) == <<"'" \o k \o "'">>

Digit == <<"0", "1", "2", "3", "4", "5", "6", "7", "8", "9">>

RECURSIVE IntStr(_)
\* str(n) for an integer n
IntStr(n) ==
    IF n < 0 THEN "-" \o IntStr(0 - n)
    ELSE IF n < 10 THEN Digit[n + 1]
    ELSE IntStr(n \div 10) \o Digit[(n % 10) + 1]

\* A numeric argument and a string argument of a tool call.
Num(n) == [num |-> n]
Str(s) == [str |-> s]
IsNum(v) == "num" \in DOMAIN v

----------------------------------------------------------------------------
(* Texts *)

\* `tok in text`
Contains(text, tok) == \E i \in DOMAIN text : text[i] = tok

\* text.replace(tok, "")
Remove(text, tok) == SelectSeq(text, LAMBDA t : t # tok)

Whitespace == {"\n", " "}

RECURSIVE LStrip(_)
LStrip(text) ==
    IF text # <<>> /\ Head(text) \in Whitespace THEN LStrip(Tail(text)) ELSE text

RECURSIVE RStrip(_)
RStrip(text) ==
    IF text # <<>> /\ text[Len(text)] \in Whitespace
    THEN RStrip(SubSeq(text, 1, Len(text) - 1))
    ELSE text

\* text.strip()
Strip(text) == RStrip(LStrip(text))

TextContent(text) == [type |-> "text", text |-> text]

----------------------------------------------------------------------------
(* The process runner *)

\* What subprocess.run does with a command: it exits with a status, it
\* exceeds the timeout, or launching it raises.
Exited(stdout, stderr, code) ==
    [kind |-> "exit", stdout |-> stdout, stderr |-> stderr, code |-> code]
TimedOut ==
    [kind |-> "timeout", stdout |-> <<>>, stderr |-> <<>>, code |-> 0]
LaunchRaised(msg) ==
    [kind |-> "raise", stdout |-> <<>>, stderr |-> msg, code |-> 0]

\* A runner that never names the device: C3 tells it from _run_adb.
AdbCmdUntargeted(dev, path, args) == <<path>> \o args

\* The command line _run_adb builds.
AdbCmd(dev, path, args) ==
    <<path>> \o (IF Truthy(dev) THEN <<"-s", dev>> ELSE <<>>) \o args

\* A runner without the two except clauses, which reports what the process
\* left behind: C6 tells it from _run_adb.
run_adb_unhandled(dev, path, args, timeout, p) ==
    [cmd |-> AdbCmd(dev, path, args), stdout |-> p.stdout, stderr |-> p.stderr,
     code |-> p.code]

\* _run_adb: the command line and the (stdout, stderr, returncode) triple.
run_adb(dev, path, args, timeout, p) ==
    [cmd |-> AdbCmd(dev, path, args),
     stdout |-> IF p.kind = "exit" THEN p.stdout ELSE <<>>,
     stderr |-> CASE p.kind = "exit" -> p.stderr
                  [] p.kind = "timeout" ->
                        <<"Command timed out after ", IntStr(timeout), "s">>
                  [] OTHER -> p.stderr,
     code |-> IF p.kind = "exit" THEN p.code ELSE 1]

DefaultTimeout == 30

----------------------------------------------------------------------------
(* Handler results: the device serial held afterwards, the results of the  *)
(* process runs made, in order, the response, the exception raised (<<>>   *)
(* when none, else <<msg>>), and the settling delay awaited before the     *)
(* response is returned (ms).                                              *)

Return(dev, runs, text) ==
    [dev |-> dev, runs |-> runs, resp |-> <<TextContent(text)>>,
     exc |-> <<>>, delay |-> 0]

ReturnAfter(dev, runs, text, ms) ==
    [dev |-> dev, runs |-> runs, resp |-> <<TextContent(text)>>,
     exc |-> <<>>, delay |-> ms]

Raise(dev, runs, msg) ==
    [dev |-> dev, runs |-> runs, resp |-> <<>>, exc |-> <<msg>>, delay |-> 0]

NoDeviceSelected == <<"No device selected.">>

----------------------------------------------------------------------------
(* Device management *)

select_device(dev, serial) ==
    Return(serial, <<>>, <<"Selected device: ", serial>>)

Properties ==
    <<"ro.product.model", "ro.build.version.release",
      "ro.build.version.sdk", "ro.product.cpu.abi">>

\* json.dumps(info, indent=2) of the str -> str dict given as a sequence of
\* <<key, value>> pairs.
RECURSIVE JsonMembers(_)
JsonMembers(items) ==
    IF items = <<>> THEN <<>>
    ELSE <<"\n  \"", Head(items)[1], "\": \"">> \o Head(items)[2] \o <<"\"">>
         \o (IF Len(items) > 1 THEN <<",">> ELSE <<>>)
         \o JsonMembers(Tail(items))

JsonDict(items) ==
    IF items = <<>> THEN <<"{}">> ELSE <<"{">> \o JsonMembers(items) \o <<"\n}">>

\* The info dict built from the five queries q, in insertion order.
DeviceInfo(q) ==
    LET key(i) == IF i <= 4 THEN Properties[i] ELSE "screen_size"
        kept == SelectSeq(<<1, 2, 3, 4, 5>>, LAMBDA i : q[i].code = 0)
    IN [j \in 1..Len(kept) |-> <<key(kept[j]), Strip(q[kept[j]].stdout)>>]

DeviceInfoResult(dev, q) ==
    Return(dev, q,
           <<"Device Information:\n">> \o JsonDict(DeviceInfo(q)))

get_device_info(dev, path, procs) ==
    IF ~Truthy(dev)
    THEN Return(dev, <<>>,
                NoDeviceSelected \o <<" Use list_devices and select_device first.">>)
    ELSE DeviceInfoResult(dev,
            [i \in 1..5 |->
                run_adb(dev, path,
                        IF i <= 4 THEN <<"shell", "getprop", Properties[i]>>
                        ELSE <<"shell", "wm", "size">>,
                        DefaultTimeout, procs[i])])

----------------------------------------------------------------------------
(* The UI dump: XML text and its parsing *)

Q == "\""

\* The attributes of a UI node, in the order uiautomator writes them.
AttrOrder == <<"text", "resource-id", "class", "content-desc", "bounds">>

AttrOpen(a) == " " \o a \o "=" \o Q

RECURSIVE XmlAttrs(_, _)
XmlAttrs(node, i) ==
    IF i > Len(AttrOrder) THEN <<>>
    ELSE (IF Has(node, AttrOrder[i])
          THEN <<AttrOpen(AttrOrder[i])>> \o node[AttrOrder[i]] \o <<Q>>
          ELSE <<>>)
         \o XmlAttrs(node, i + 1)

RECURSIVE XmlNodes(_)
XmlNodes(nodes) ==
    IF nodes = <<>> THEN <<>>
    ELSE <<"<node">> \o XmlAttrs(Head(nodes), 1) \o <<"/>">> \o XmlNodes(Tail(nodes))

\* The window dump uiautomator writes for a screen showing `nodes`.
XmlDump(nodes) == <<"<hierarchy>">> \o XmlNodes(nodes) \o <<"</hierarchy>">>

\* The index of the first token of `t` at or after i equal to tok, 0 if none.
RECURSIVE IndexFrom(_, _, _)
IndexFrom(t, tok, i) ==
    IF i > Len(t) THEN 0
    ELSE IF t[i] = tok THEN i
    ELSE IndexFrom(t, tok, i + 1)

AttrOfToken(tok) ==
    IF \E i \in DOMAIN AttrOrder : AttrOpen(AttrOrder[i]) = tok
    THEN <<CHOOSE a \in {AttrOrder[i] : i \in DOMAIN AttrOrder} : AttrOpen(a) = tok>>
    ELSE <<>>

ParseFailed(msg) == [ok |-> FALSE, elems |-> <<>>, msg |-> msg]

RECURSIVE ParseXmlNodes(_, _, _)
RECURSIVE ParseXmlAttrs(_, _, _, _)
\* The elements from token i on, each a function from attribute names to
\* values, appended to acc in document order.
ParseXmlNodes(t, i, acc) ==
    IF i > Len(t) THEN ParseFailed(<<"no element found">>)
    ELSE IF t[i] = "</hierarchy>"
         THEN IF i = Len(t) THEN [ok |-> TRUE, elems |-> acc, msg |-> <<>>]
              ELSE ParseFailed(<<"junk after document element">>)
    ELSE IF t[i] = "<node" THEN ParseXmlAttrs(t, i + 1, EmptyDict, acc)
    ELSE ParseFailed(<<"not well-formed (invalid token)">>)

ParseXmlAttrs(t, i, node, acc) ==
    IF i > Len(t) THEN ParseFailed(<<"unclosed token">>)
    ELSE IF t[i] = "/>" THEN ParseXmlNodes(t, i + 1, Append(acc, node))
    ELSE LET a == AttrOfToken(t[i])
             close == IndexFrom(t, Q, i + 1)
         IN IF a = <<>> \/ close = 0
            THEN ParseFailed(<<"not well-formed (invalid token)">>)
            ELSE IF Has(node, a[1]) THEN ParseFailed(<<"duplicate attribute">>)
            ELSE ParseXmlAttrs(t, close + 1,
                               node @@ (a[1] :> SubSeq(t, i + 1, close - 1)), acc)

\* ET.fromstring followed by root.iter(): the root element, which carries
\* none of the node attributes, then the nodes in document order.
ParseXml(t) ==
    IF t = <<>> THEN ParseFailed(<<"no element found">>)
    ELSE IF t[1] # "<hierarchy>" THEN ParseFailed(<<"syntax error">>)
    ELSE ParseXmlNodes(t, 2, <<EmptyDict>>)

\* elem.get(a): <<value>>, or <<>> for None.
Get(elem, a) == IF Has(elem, a) THEN <<elem[a]>> ELSE <<>>

----------------------------------------------------------------------------
(* Screen inspection *)

\* What open(local_path).read() gives after a pull that exited 0.
FileContent(text) == [readable |-> TRUE, text |-> text]
FileUnreadable(msg) == [readable |-> FALSE, text |-> msg]

\* A hierarchy read from the local file whatever the pull did: C29 tells it
\* from the code.
UiHierarchyResultUnchecked(dev, dump, pull, file) ==
    IF dump.code # 0
    THEN Return(dev, <<dump>>, <<"Failed to dump UI: ">> \o dump.stderr)
    ELSE IF file.readable
    THEN Return(dev, <<dump, pull>>, <<"UI Hierarchy:\n">> \o file.text)
    ELSE Return(dev, <<dump, pull>>,
                <<"Error", " reading UI hierarchy: ">> \o file.text)

\* _get_ui_hierarchy after the device check: dump and pull are the results
\* of the two process runs, the second launched only if the first exited 0.
UiHierarchyResult(dev, dump, pull, file) ==
    IF dump.code # 0
    THEN Return(dev, <<dump>>, <<"Failed to dump UI: ">> \o dump.stderr)
    ELSE IF pull.code # 0
    THEN Return(dev, <<dump, pull>>, <<"Failed to pull UI dump: ">> \o pull.stderr)
    ELSE IF file.readable
    THEN Return(dev, <<dump, pull>>, <<"UI Hierarchy:\n">> \o file.text)
    ELSE Return(dev, <<dump, pull>>,
                <<"Error", " reading UI hierarchy: ">> \o file.text)

\* _get_ui_hierarchy without its device check: C1 tells it from the code.
get_ui_hierarchy_unguarded(dev, path, procs, file) ==
    UiHierarchyResult(dev,
        run_adb(dev, path,
                <<"shell", "uiautomator", "dump", "/sdcard/window_dump.xml">>,
                DefaultTimeout, procs[1]),
        run_adb(dev, path,
                <<"pull", "/sdcard/window_dump.xml", "/tmp/ui_hierarchy.xml">>,
                DefaultTimeout, procs[2]),
        file)

get_ui_hierarchy(dev, path, procs, file) ==
    IF ~Truthy(dev) THEN Return(dev, <<>>, NoDeviceSelected)
    ELSE UiHierarchyResult(dev,
            run_adb(dev, path,
                    <<"shell", "uiautomator", "dump", "/sdcard/window_dump.xml">>,
                    DefaultTimeout, procs[1]),
            run_adb(dev, path,
                    <<"pull", "/sdcard/window_dump.xml", "/tmp/ui_hierarchy.xml">>,
                    DefaultTimeout, procs[2]),
            file)

CriteriaKeys == <<"text", "resource_id", "class_name", "content_desc">>

\* The XML attribute a criterion is compared with.
CriterionAttr(k) ==
    CASE k = "text" -> "text"
      [] k = "resource_id" -> "resource-id"
      [] k = "class_name" -> "class"
      [] k = "content_desc" -> "content-desc"

\* The `match` flag of _find_element's loop body for one element.
Matches(elem, criteria) ==
    /\ \A i \in DOMAIN CriteriaKeys :
          Has(criteria, CriteriaKeys[i]) =>
             Get(elem, CriterionAttr(CriteriaKeys[i])) = <<criteria[CriteriaKeys[i]]>>
    /\ \E i \in DOMAIN CriteriaKeys : Has(criteria, CriteriaKeys[i])

\* The dict _find_element reports for a matching element.
MatchKeys == <<"text", "resource-id", "class", "bounds", "clickable", "enabled">>

MatchDict(elem) == [k \in {MatchKeys[i] : i \in DOMAIN MatchKeys} |-> Get(elem, k)]

RECURSIVE JsonObjMembers(_, _)
JsonObjMembers(d, i) ==
    IF i > Len(MatchKeys) THEN <<>>
    ELSE <<Q, MatchKeys[i], Q, ": ">>
         \o (IF d[MatchKeys[i]] = <<>> THEN <<"null">>
             ELSE <<Q>> \o d[MatchKeys[i]][1] \o <<Q>>)
         \o (IF i < Len(MatchKeys) THEN <<", ">> ELSE <<>>)
         \o JsonObjMembers(d, i + 1)

RECURSIVE JsonObjs(_)
JsonObjs(ds) ==
    IF ds = <<>> THEN <<>>
    ELSE <<"{">> \o JsonObjMembers(Head(ds), 1) \o <<"}">>
         \o (IF Len(ds) > 1 THEN <<", ">> ELSE <<>>)
         \o JsonObjs(Tail(ds))

\* json.dumps(matches, indent=2)
JsonDumps(ds) == <<"[">> \o JsonObjs(ds) \o <<"]">>

\* The matches list of _find_element: the report of every element, in
\* document order, that matches the criteria.
MatchList(elems, criteria) ==
    LET pick(found) == [i \in DOMAIN found |-> MatchDict(found[i])]
    IN pick(SelectSeq(elems, LAMBDA e : Matches(e, criteria)))

FoundReport(dev, runs, matches) ==
    IF matches # <<>>
    THEN Return(dev, runs,
                <<"Found ", IntStr(Len(matches)), " matching element(s)", ":\n">>
                \o JsonDumps(matches))
    ELSE Return(dev, runs, <<"No matching elements", " found.">>)

\* The try block of _find_element on the parse of the hierarchy text.
FindInParsed(dev, runs, criteria, root) ==
    IF ~root.ok
    THEN Return(dev, runs, <<"Error", " parsing UI hierarchy: ">> \o root.msg)
    ELSE FoundReport(dev, runs, MatchList(root.elems, criteria))

\* _find_element on the result h of _get_ui_hierarchy.
FindInHierarchy(dev, criteria, h) ==
    IF Contains(h.resp[1].text, "Error") THEN h
    ELSE FindInParsed(dev, h.runs, criteria,
                      ParseXml(Remove(h.resp[1].text, "UI Hierarchy:\n")))

find_element(dev, path, criteria, procs, file) ==
    FindInHierarchy(dev, criteria, get_ui_hierarchy(dev, path, procs, file))

----------------------------------------------------------------------------
(* UI interaction *)

\* int(v) raises ValueError for a string that is no number.
IntOk(v) == IsNum(v)
IntErrMsg(v) == <<"invalid literal for int() with base 10: '" \o v.str \o "'">>

\* A tail that returns the success text at once: C17 tells it from the code.
OneCallNoDelay(dev, r, failed, done, ms) ==
    IF r.code # 0 THEN Return(dev, <<r>>, <<failed>> \o r.stderr)
    ELSE Return(dev, <<r>>, done)

\* The common tail of the handlers that run one command r: the failure text
\* with r's stderr, or the success text after the settling delay.
OneCall(dev, r, failed, done, ms) ==
    IF r.code # 0 THEN Return(dev, <<r>>, <<failed>> \o r.stderr)
    ELSE ReturnAfter(dev, <<r>>, done, ms)

tap_coordinates(dev, path, x, y, p) ==
    IF ~Truthy(dev) THEN Return(dev, <<>>, NoDeviceSelected)
    ELSE IF ~IntOk(x) THEN Raise(dev, <<>>, IntErrMsg(x))
    ELSE IF ~IntOk(y) THEN Raise(dev, <<>>, IntErrMsg(y))
    ELSE OneCall(dev,
                 run_adb(dev, path,
                         <<"shell", "input", "tap", IntStr(x.num), IntStr(y.num)>>,
                         DefaultTimeout, p),
                 "Failed to tap: ",
                 <<"Tapped at coordinates (", IntStr(x.num), ", ", IntStr(y.num), ")">>,
                 500)

\* text.split(tok, 1)[1]: <<rest>>, or <<>> when tok does not occur
\* (IndexError).
AfterFirst(text, tok) ==
    LET i == IndexFrom(text, tok, 1)
    IN IF i = 0 THEN <<>> ELSE <<SubSeq(text, i + 1, Len(text))>>

JsonFailed == [ok |-> FALSE, objs |-> <<>>]

RECURSIVE JsonLoadObjs(_, _, _)
RECURSIVE JsonLoadMembers(_, _, _, _)
\* json.loads of a list of objects whose values are strings or null.
JsonLoadObjs(t, i, acc) ==
    IF i > Len(t) THEN JsonFailed
    ELSE IF t[i] = "]"
         THEN IF i = Len(t) THEN [ok |-> TRUE, objs |-> acc] ELSE JsonFailed
    ELSE IF t[i] = "{" THEN JsonLoadMembers(t, i + 1, EmptyDict, acc)
    ELSE IF t[i] = ", " /\ acc # <<>> /\ i < Len(t) /\ t[i + 1] = "{"
         THEN JsonLoadMembers(t, i + 2, EmptyDict, acc)
    ELSE JsonFailed

JsonLoadMembers(t, i, obj, acc) ==
    IF i > Len(t) THEN JsonFailed
    ELSE IF t[i] = "}" THEN JsonLoadObjs(t, i + 1, Append(acc, obj))
    ELSE IF t[i] = ", " THEN JsonLoadMembers(t, i + 1, obj, acc)
    ELSE IF i + 4 > Len(t) \/ t[i] # Q \/ t[i + 2] # Q \/ t[i + 3] # ": "
         THEN JsonFailed
    ELSE IF t[i + 4] = "null"
         THEN JsonLoadMembers(t, i + 5, obj @@ (t[i + 1] :> <<>>), acc)
    ELSE LET close == IndexFrom(t, Q, i + 5)
         IN IF t[i + 4] # Q \/ close = 0 THEN JsonFailed
            ELSE JsonLoadMembers(t, close + 1,
                                 obj @@ (t[i + 1] :> <<SubSeq(t, i + 5, close - 1)>>),
                                 acc)

JsonLoads(t) ==
    IF t = <<>> \/ t[1] # "[" THEN JsonFailed ELSE JsonLoadObjs(t, 2, <<>>)

IsDigit(c) == \E i \in DOMAIN Digit : Digit[i] = c
DigitVal(c) == (CHOOSE i \in DOMAIN Digit : Digit[i] = c) - 1

RECURSIVE DigitRuns(_, _, _)
\* [int(m) for m in re.findall(r'\d+', chars)]; cur is <<n>> inside a run.
DigitRuns(chars, cur, acc) ==
    IF chars = <<>> THEN acc \o cur
    ELSE IF IsDigit(Head(chars))
         THEN DigitRuns(Tail(chars),
                        <<(IF cur = <<>> THEN 0 ELSE cur[1] * 10) + DigitVal(Head(chars))>>,
                        acc)
    ELSE DigitRuns(Tail(chars), <<>>, acc \o cur)

\* A midpoint that rounds up: C8 tells it from the code.
CenterRoundedUp(c) == <<(c[1] + c[3] + 1) \div 2, (c[2] + c[4] + 1) \div 2>>

\* The tap point _tap_element computes from four coordinates.
Center(c) == <<(c[1] + c[3]) \div 2, (c[2] + c[4]) \div 2>>

\* The result of _tap_coordinates as the result of _tap_element, whose
\* process runs so far are runs.
AfterRuns(runs, tap) == [tap EXCEPT !.runs = runs \o tap.runs]

\* _tap_element from the bounds text on: coords are its digit runs.
TapAtBounds(dev, path, runs, bounds, coords, p) ==
    IF Len(coords) >= 4
    THEN AfterRuns(runs,
                   tap_coordinates(dev, path, Num(Center(coords)[1]),
                                   Num(Center(coords)[2]), p))
    ELSE Return(dev, runs, <<"Could not parse bounds: ">> \o bounds)

\* _tap_element on the bounds of the first match: <<text>>, or <<>> for None.
TapFirstMatch(dev, path, runs, bounds, p) ==
    IF bounds = <<>> \/ bounds[1] = <<>>
    THEN Return(dev, runs, <<"Element has no bounds information.">>)
    ELSE TapAtBounds(dev, path, runs, bounds[1], DigitRuns(bounds[1], <<>>, <<>>), p)

\* _tap_element on the parsed matches; matches[0].get("bounds") is <<text>>,
\* or <<>> for a missing key or null.
TapLoaded(dev, path, runs, loaded, p) ==
    IF ~loaded.ok
    THEN Return(dev, runs, <<"Error", " tapping element: ", "Expecting value">>)
    ELSE IF loaded.objs = <<>> THEN Return(dev, runs, <<"No elements found to tap.">>)
    ELSE TapFirstMatch(dev, path, runs,
                       IF Has(loaded.objs[1], "bounds") THEN loaded.objs[1]["bounds"]
                       ELSE <<>>,
                       p)

\* _tap_element on what follows the first ":\n" of the find result.
TapSplit(dev, path, runs, rest, p) ==
    IF rest = <<>>
    THEN Return(dev, runs, <<"Error", " tapping element: ", "list index out of range">>)
    ELSE TapLoaded(dev, path, runs, JsonLoads(rest[1]), p)

\* _tap_element on the result f of _find_element.
TapFound(dev, path, f, p) ==
    IF Contains(f.resp[1].text, "No matching elements") \/ Contains(f.resp[1].text, "Error")
    THEN f
    ELSE TapSplit(dev, path, f.runs, AfterFirst(f.resp[1].text, ":\n"), p)

tap_element(dev, path, criteria, procs, file) ==
    TapFound(dev, path, find_element(dev, path, criteria, procs, file), procs[3])

swipe(dev, path, start_x, start_y, end_x, end_y, duration, p) ==
    IF ~Truthy(dev) THEN Return(dev, <<>>, NoDeviceSelected)
    ELSE IF \E v \in {start_x, start_y, end_x, end_y} : ~IntOk(v)
    THEN Raise(dev, <<>>,
               IntErrMsg(CHOOSE v \in {start_x, start_y, end_x, end_y} : ~IntOk(v)))
    ELSE
      LET r == run_adb(dev, path,
                       <<"shell", "input", "swipe", IntStr(start_x.num),
                         IntStr(start_y.num), IntStr(end_x.num), IntStr(end_y.num),
                         IntStr(duration)>>,
                       DefaultTimeout, p)
      IN IF r.code # 0
         THEN Return(dev, <<r>>, <<"Failed to swipe: ">> \o r.stderr)
         ELSE ReturnAfter(dev, <<r>>,
                          <<"Swiped from (", IntStr(start_x.num), ", ",
                            IntStr(start_y.num), ") to (", IntStr(end_x.num), ", ",
                            IntStr(end_y.num), ")">>,
                          500)

KeyNames == <<"back", "home", "recent", "menu", "power", "volume_up", "volume_down">>
KeyCodes == <<"4", "3", "187", "82", "26", "24", "25">>

\* A key table with back and home exchanged: C10 tells it from key_codes.
key_codes_get_swapped(key) ==
    IF \E i \in DOMAIN KeyNames : KeyNames[i] = key
    THEN <<KeyCodes[CHOOSE i \in DOMAIN KeyNames :
                       KeyNames[i] = (CASE key = "back" -> "home"
                                        [] key = "home" -> "back"
                                        [] OTHER -> key)]>>
    ELSE <<>>

\* key_codes.get(key): <<code>>, or <<>> for None.
key_codes_get(key) ==
    IF \E i \in DOMAIN KeyNames : KeyNames[i] = key
    THEN <<KeyCodes[CHOOSE i \in DOMAIN KeyNames : KeyNames[i] = key]>>
    ELSE <<>>

press_key(dev, path, key, p) ==
    IF ~Truthy(dev) THEN Return(dev, <<>>, NoDeviceSelected)
    ELSE
      LET key_code == key_codes_get(key)
          r == run_adb(dev, path, <<"shell", "input", "keyevent", key_code[1]>>,
                       DefaultTimeout, p)
      IN IF key_code = <<>> THEN Return(dev, <<>>, <<"Unknown key: ", key>>)
         ELSE IF r.code # 0
         THEN Return(dev, <<r>>, <<"Failed to press key: ">> \o r.stderr)
         ELSE ReturnAfter(dev, <<r>>, <<"Pressed ", key, " key">>, 300)

\* text.replace(" ", "%s").replace("'", "\\'") on a text of one-character
\* tokens.
RECURSIVE EscapeText(_)
EscapeText(chars) ==
    IF chars = <<>> THEN <<>>
    ELSE (CASE Head(chars) = " " -> <<"%", "s">>
            [] Head(chars) = "'" -> <<"\\", "'">>
            [] OTHER -> <<Head(chars)>>)
         \o EscapeText(Tail(chars))

RECURSIVE Join(_)
\* "".join(tokens): the text as one command-line argument.
Join(tokens) == IF tokens = <<>> THEN "" ELSE Head(tokens) \o Join(Tail(tokens))

input_text(dev, path, text, p) ==
    IF ~Truthy(dev) THEN Return(dev, <<>>, NoDeviceSelected)
    ELSE
      LET r == run_adb(dev, path, <<"shell", "input", "text", Join(EscapeText(text))>>,
                       DefaultTimeout, p)
      IN IF r.code # 0
         THEN Return(dev, <<r>>, <<"Failed to input text: ">> \o r.stderr)
         ELSE Return(dev, <<r>>, <<"Entered text: ">> \o text)

----------------------------------------------------------------------------
(* Device listing *)

RECURSIVE SplitOn(_, _, _, _)
\* text.split(sep): the texts between the sep tokens.
SplitOn(text, sep, cur, acc) ==
    IF text = <<>> THEN Append(acc, cur)
    ELSE IF Head(text) = sep THEN SplitOn(Tail(text), sep, <<>>, Append(acc, cur))
    ELSE SplitOn(Tail(text), sep, Append(cur, Head(text)), acc)

Lines(text) == SplitOn(text, "\n", <<>>, <<>>)

\* line.split(): the fields between runs of spaces.
Fields(line) == SelectSeq(SplitOn(line, " ", <<>>, <<>>), LAMBDA f : f # <<>>)

RECURSIVE JoinWith(_, _)
\* sep.join(texts)
JoinWith(texts, sep) ==
    IF texts = <<>> THEN <<>>
    ELSE IF Len(texts) = 1 THEN texts[1]
    ELSE texts[1] \o <<sep>> \o JoinWith(Tail(texts), sep)

\* A report line that leaves the state out: C11 tells it from the code.
DeviceLineWithoutState(line) ==
    LET parts == Fields(line)
    IN <<"Serial: ">> \o parts[1] \o <<", Info: ">>
       \o JoinWith(SubSeq(parts, 3, Len(parts)), " ")

\* The report line of one device line.
DeviceLine(line) ==
    LET parts == Fields(line)
    IN <<"Serial: ">> \o parts[1] \o <<", State: ">> \o parts[2] \o <<", Info: ">>
       \o JoinWith(SubSeq(parts, 3, Len(parts)), " ")

list_devices(dev, path, p) ==
    LET r == run_adb(dev, path, <<"devices", "-l">>, DefaultTimeout, p)
        lines == Tail(Lines(Strip(r.stdout)))
        listed == SelectSeq(lines, LAMBDA l : Strip(l) # <<>> /\ Len(Fields(l)) >= 2)
        devices == [i \in DOMAIN listed |-> DeviceLine(listed[i])]
    IN IF r.code # 0
       THEN Return(dev, <<r>>, <<"Error", " listing devices: ">> \o r.stderr)
       ELSE IF devices = <<>>
       THEN Return(dev, <<r>>,
                   <<"No devices found. Make sure an emulator is running or a device is connected.">>)
       ELSE Return(dev, <<r>>,
                   <<"Available devices:", "\n">> \o JoinWith(devices, "\n"))

----------------------------------------------------------------------------
(* Screenshot *)

ImageContent(data) == [type |-> "image", text |-> data]

capture_screenshot(dev, path, save_path, procs, file) ==
    IF ~Truthy(dev) THEN Return(dev, <<>>, NoDeviceSelected)
    ELSE
      LET local_path == IF save_path # <<>> /\ save_path[1] # ""
                        THEN save_path[1] ELSE "/tmp/android_screenshot.png"
          cap == run_adb(dev, path, <<"shell", "screencap", "-p", "/sdcard/screenshot.png">>,
                         DefaultTimeout, procs[1])
          pull == run_adb(dev, path, <<"pull", "/sdcard/screenshot.png", local_path>>,
                          DefaultTimeout, procs[2])
      IN IF cap.code # 0
         THEN Return(dev, <<cap>>, <<"Failed to capture screenshot: ">> \o cap.stderr)
         ELSE IF pull.code # 0
         THEN Return(dev, <<cap, pull>>,
                     <<"Failed to pull screenshot: ">> \o pull.stderr)
         ELSE IF file.readable
         THEN [dev |-> dev, runs |-> <<cap, pull>>,
               resp |-> <<TextContent(<<"Screenshot captured successfully. Saved to: ",
                                        local_path>>),
                          ImageContent(file.text)>>,
               exc |-> <<>>, delay |-> 0]
         ELSE Return(dev, <<cap, pull>>,
                     <<"Error", " reading screenshot: ">> \o file.text)

----------------------------------------------------------------------------
(* App management *)

InstallTimeout == 120

\* _install_app without the os.path.exists test: C12 tells it from the code.
install_app_unchecked(dev, path, apk_path, exists, p) ==
    IF ~Truthy(dev) THEN Return(dev, <<>>, NoDeviceSelected)
    ELSE OneCall(dev, run_adb(dev, path, <<"install", "-r", apk_path>>, InstallTimeout, p),
                 <<"Failed to install app: ">>, <<"Successfully installed: ", apk_path>>, 0)

install_app(dev, path, apk_path, exists, p) ==
    IF ~Truthy(dev) THEN Return(dev, <<>>, NoDeviceSelected)
    ELSE IF ~exists THEN Return(dev, <<>>, <<"APK file not found: ", apk_path>>)
    ELSE
      LET r == run_adb(dev, path, <<"install", "-r", apk_path>>, InstallTimeout, p)
      IN IF r.code # 0
         THEN Return(dev, <<r>>, <<"Failed to install app: ">> \o r.stderr)
         ELSE Return(dev, <<r>>,
                     <<"Successfully installed: ", apk_path, "\n">> \o r.stdout)

launch_app(dev, path, package, p) ==
    IF ~Truthy(dev) THEN Return(dev, <<>>, NoDeviceSelected)
    ELSE
      LET r == run_adb(dev, path,
                       <<"shell", "monkey", "-p", package, "-c",
                         "android.intent.category.LAUNCHER", "1">>,
                       DefaultTimeout, p)
      IN IF r.code # 0
         THEN Return(dev, <<r>>, <<"Failed to launch app: ">> \o r.stderr)
         ELSE ReturnAfter(dev, <<r>>, <<"Launched app: ", package>>, 2000)

stop_app(dev, path, package, p) ==
    IF ~Truthy(dev) THEN Return(dev, <<>>, NoDeviceSelected)
    ELSE
      LET r == run_adb(dev, path, <<"shell", "am", "force-stop", package>>,
                       DefaultTimeout, p)
      IN IF r.code # 0
         THEN Return(dev, <<r>>, <<"Failed to stop app: ">> \o r.stderr)
         ELSE Return(dev, <<r>>, <<"Stopped app: ", package>>)

clear_app_data(dev, path, package, p) ==
    IF ~Truthy(dev) THEN Return(dev, <<>>, NoDeviceSelected)
    ELSE
      LET r == run_adb(dev, path, <<"shell", "pm", "clear", package>>, DefaultTimeout, p)
      IN IF r.code # 0
         THEN Return(dev, <<r>>, <<"Failed to clear app data: ">> \o r.stderr)
         ELSE Return(dev, <<r>>, <<"Cleared data for: ", package, "\n">> \o r.stdout)

\* The number of packages list_packages prints.
MaxListed == 100

list_packages(dev, path, filter_str, p) ==
    IF ~Truthy(dev) THEN Return(dev, <<>>, NoDeviceSelected)
    ELSE
      LET cmd == <<"shell", "pm", "list", "packages">>
                 \o (IF filter_str # <<>> /\ filter_str[1] # ""
                     THEN <<"|", "grep", filter_str[1]>> ELSE <<>>)
          r == run_adb(dev, path, cmd, DefaultTimeout, p)
          kept == SelectSeq(Lines(Strip(r.stdout)), LAMBDA l : l # <<>>)
          packages == [i \in DOMAIN kept |-> Remove(kept[i], "package:")]
          shown == SubSeq(packages, 1, IF Len(packages) > MaxListed THEN MaxListed
                                       ELSE Len(packages))
      IN IF r.code # 0
         THEN Return(dev, <<r>>, <<"Failed to list packages: ">> \o r.stderr)
         ELSE Return(dev, <<r>>,
                     <<"Found ", IntStr(Len(packages)), " package(s)", ":\n">>
                     \o JoinWith(shown, "\n")
                     \o (IF Len(packages) > MaxListed
                         THEN <<"\n... and ", IntStr(Len(packages) - MaxListed), " more">>
                         ELSE <<>>))

----------------------------------------------------------------------------
(* Network configuration *)

setup_proxy(dev, path, host, port, p) ==
    IF ~Truthy(dev) THEN Return(dev, <<>>, NoDeviceSelected)
    ELSE
      LET proxy_string == host \o ":" \o IntStr(port)
          r == run_adb(dev, path,
                       <<"shell", "settings", "put", "global", "http_proxy", proxy_string>>,
                       DefaultTimeout, p)
      IN IF r.code # 0
         THEN Return(dev, <<r>>, <<"Failed to set proxy: ">> \o r.stderr)
         ELSE Return(dev, <<r>>,
                     <<"Proxy configured: ", proxy_string,
                       "\nNote: You may need to restart apps or reboot for changes to take effect.">>)

clear_proxy(dev, path, p) ==
    IF ~Truthy(dev) THEN Return(dev, <<>>, NoDeviceSelected)
    ELSE
      LET r == run_adb(dev, path,
                       <<"shell", "settings", "put", "global", "http_proxy", ":0">>,
                       DefaultTimeout, p)
      IN IF r.code # 0
         THEN Return(dev, <<r>>, <<"Failed to clear proxy: ">> \o r.stderr)
         ELSE Return(dev, <<r>>, <<"Proxy settings cleared.">>)

install_certificate(dev, path, cert_path, exists, p) ==
    IF ~Truthy(dev) THEN Return(dev, <<>>, NoDeviceSelected)
    ELSE IF ~exists THEN Return(dev, <<>>, <<"Certificate file not found: ", cert_path>>)
    ELSE
      LET r == run_adb(dev, path, <<"push", cert_path, "/sdcard/Download/ca_cert.crt">>,
                       DefaultTimeout, p)
      IN IF r.code # 0
         THEN Return(dev, <<r>>, <<"Failed to push certificate: ">> \o r.stderr)
         ELSE Return(dev, <<r>>,
                     <<"Certificate pushed to device: ", "/sdcard/Download/ca_cert.crt",
                       "\n\nTo complete installation:\n">>)

----------------------------------------------------------------------------
(* Advanced operations *)

ShellTimeout == 60

execute_shell(dev, path, command, p) ==
    IF ~Truthy(dev) THEN Return(dev, <<>>, NoDeviceSelected)
    ELSE
      LET r == run_adb(dev, path, <<"shell", command>>, ShellTimeout, p)
      IN Return(dev, <<r>>,
                <<"Command: ", command, "\nReturn Code: ", IntStr(r.code), "\n\nOutput:\n">>
                \o r.stdout
                \o (IF r.stderr # <<>>
                    THEN <<"\n\n", "Error", " Output:\n">> \o r.stderr ELSE <<>>))

pull_file(dev, path, remote_path, local_path, p) ==
    IF ~Truthy(dev) THEN Return(dev, <<>>, NoDeviceSelected)
    ELSE
      LET r == run_adb(dev, path, <<"pull", remote_path, local_path>>, DefaultTimeout, p)
      IN IF r.code # 0
         THEN Return(dev, <<r>>, <<"Failed to pull file: ">> \o r.stderr)
         ELSE Return(dev, <<r>>,
                     <<"File pulled successfully:\nFrom: ", remote_path, "\nTo: ",
                       local_path, "\n">> \o r.stdout)

\* A push with source and destination exchanged: C18 tells it from the
\* code.
push_file_swapped(dev, path, local_path, remote_path, exists, p) ==
    IF ~Truthy(dev) THEN Return(dev, <<>>, NoDeviceSelected)
    ELSE IF ~exists THEN Return(dev, <<>>, <<"Local file not found: ", local_path>>)
    ELSE
      LET r == run_adb(dev, path, <<"push", remote_path, local_path>>, DefaultTimeout, p)
      IN IF r.code # 0
         THEN Return(dev, <<r>>, <<"Failed to push file: ">> \o r.stderr)
         ELSE Return(dev, <<r>>,
                     <<"File pushed successfully:\nFrom: ", local_path, "\nTo: ",
                       remote_path, "\n">> \o r.stdout)

push_file(dev, path, local_path, remote_path, exists, p) ==
    IF ~Truthy(dev) THEN Return(dev, <<>>, NoDeviceSelected)
    ELSE IF ~exists THEN Return(dev, <<>>, <<"Local file not found: ", local_path>>)
    ELSE
      LET r == run_adb(dev, path, <<"push", local_path, remote_path>>, DefaultTimeout, p)
      IN IF r.code # 0
         THEN Return(dev, <<r>>, <<"Failed to push file: ">> \o r.stderr)
         ELSE Return(dev, <<r>>,
                     <<"File pushed successfully:\nFrom: ", local_path, "\nTo: ",
                       remote_path, "\n">> \o r.stdout)

----------------------------------------------------------------------------
(* Tool dispatch *)

\* A catalog that lacks the last tool: C24 tells it from the code.
ToolNamesShort ==
    <<"list_devices", "select_device", "get_device_info", "capture_screenshot",
      "get_ui_hierarchy", "find_element", "tap_coordinates", "tap_element", "swipe",
      "input_text", "press_key", "install_app", "launch_app", "stop_app",
      "clear_app_data", "list_packages", "setup_proxy", "clear_proxy",
      "install_certificate", "execute_shell", "pull_file">>

\* The names list_tools advertises.
ToolNames ==
    <<"list_devices", "select_device", "get_device_info", "capture_screenshot",
      "get_ui_hierarchy", "find_element", "tap_coordinates", "tap_element", "swipe",
      "input_text", "press_key", "install_app", "launch_app", "stop_app",
      "clear_app_data", "list_packages", "setup_proxy", "clear_proxy",
      "install_certificate", "execute_shell", "pull_file", "push_file">>

\* list_tools: one descriptor per tool, built anew on every call from
\* nothing but literals.
list_tools == [i \in DOMAIN ToolNames |-> [name |-> ToolNames[i]]]

\* arguments.get(k): <<value>>, or <<>> for None.
ArgGet(a, k) == IF Has(a, k) THEN <<a[k]>> ELSE <<>>

\* The first of the subscripted keys that arguments lacks, as <<key>>.
Missing(a, keys) == SelectSeq(keys, LAMBDA k : ~Has(a, k))

\* An else branch that forgets the selection: C5 tells it from the code.
unknown_tool_reset(dev, name) == Return(None, <<>>, <<"Unknown tool: ", name>>)

\* The else branch of call_tool's chain.
unknown_tool(dev, name) == Return(dev, <<>>, <<"Unknown tool: ", name>>)

\* The if/elif chain of call_tool.  env holds what the outside world does
\* during the call: procs[i] is the fate of the i-th process launched, file
\* the content of the local file read back, exists the answer of
\* os.path.exists.
Dispatch(dev, path, name, a, env) ==
    LET need(keys) == Missing(a, keys)
        KeyError(keys) == Raise(dev, <<>>, KeyErrorMsg(need(keys)[1]))
        p == env.procs
    IN CASE name = "list_devices" -> list_devices(dev, path, p[1])
         [] name = "select_device" ->
               IF need(<<"serial">>) # <<>> THEN KeyError(<<"serial">>)
               ELSE select_device(dev, a["serial"])
         [] name = "get_device_info" -> get_device_info(dev, path, p)
         [] name = "capture_screenshot" ->
               capture_screenshot(dev, path, ArgGet(a, "save_path"), p, env.file)
         [] name = "get_ui_hierarchy" -> get_ui_hierarchy(dev, path, p, env.file)
         [] name = "find_element" -> find_element(dev, path, a, p, env.file)
         [] name = "tap_coordinates" ->
               IF need(<<"x", "y">>) # <<>> THEN KeyError(<<"x", "y">>)
               ELSE tap_coordinates(dev, path, a["x"], a["y"], p[1])
         [] name = "tap_element" -> tap_element(dev, path, a, p, env.file)
         [] name = "swipe" ->
               IF need(<<"start_x", "start_y", "end_x", "end_y">>) # <<>>
               THEN KeyError(<<"start_x", "start_y", "end_x", "end_y">>)
               ELSE swipe(dev, path, a["start_x"], a["start_y"], a["end_x"], a["end_y"],
                          IF Has(a, "duration") THEN a["duration"] ELSE 300, p[1])
         [] name = "input_text" ->
               IF need(<<"text">>) # <<>> THEN KeyError(<<"text">>)
               ELSE input_text(dev, path, a["text"], p[1])
         [] name = "press_key" ->
               IF need(<<"key">>) # <<>> THEN KeyError(<<"key">>)
               ELSE press_key(dev, path, a["key"], p[1])
         [] name = "install_app" ->
               IF need(<<"apk_path">>) # <<>> THEN KeyError(<<"apk_path">>)
               ELSE install_app(dev, path, a["apk_path"], env.exists, p[1])
         [] name = "launch_app" ->
               IF need(<<"package">>) # <<>> THEN KeyError(<<"package">>)
               ELSE launch_app(dev, path, a["package"], p[1])
         [] name = "stop_app" ->
               IF need(<<"package">>) # <<>> THEN KeyError(<<"package">>)
               ELSE stop_app(dev, path, a["package"], p[1])
         [] name = "clear_app_data" ->
               IF need(<<"package">>) # <<>> THEN KeyError(<<"package">>)
               ELSE clear_app_data(dev, path, a["package"], p[1])
         [] name = "list_packages" -> list_packages(dev, path, ArgGet(a, "filter"), p[1])
         [] name = "setup_proxy" ->
               IF need(<<"host", "port">>) # <<>> THEN KeyError(<<"host", "port">>)
               ELSE setup_proxy(dev, path, a["host"], a["port"], p[1])
         [] name = "clear_proxy" -> clear_proxy(dev, path, p[1])
         [] name = "install_certificate" ->
               IF need(<<"cert_path">>) # <<>> THEN KeyError(<<"cert_path">>)
               ELSE install_certificate(dev, path, a["cert_path"], env.exists, p[1])
         [] name = "execute_shell" ->
               IF need(<<"command">>) # <<>> THEN KeyError(<<"command">>)
               ELSE execute_shell(dev, path, a["command"], p[1])
         [] name = "pull_file" ->
               IF need(<<"remote_path", "local_path">>) # <<>>
               THEN KeyError(<<"remote_path", "local_path">>)
               ELSE pull_file(dev, path, a["remote_path"], a["local_path"], p[1])
         [] name = "push_file" ->
               IF need(<<"local_path", "remote_path">>) # <<>>
               THEN KeyError(<<"local_path", "remote_path">>)
               ELSE push_file(dev, path, a["local_path"], a["remote_path"], env.exists,
                              p[1])
         [] OTHER -> unknown_tool(dev, name)

\* call_tool without its except clause: C4 tells it from the code.
Uncaught(r) ==
    [dev |-> r.dev, runs |-> r.runs, resp |-> r.resp, exc |-> r.exc,
     delay |-> r.delay, caught |-> <<>>]

\* An except clause that forgets the selection: C25 tells it from the code.
CaughtReset(r) ==
    IF r.exc # <<>>
    THEN [dev |-> None, runs |-> r.runs,
          resp |-> <<TextContent(<<"Error", ": ">> \o r.exc[1])>>,
          exc |-> <<>>, delay |-> 0, caught |-> r.exc]
    ELSE [dev |-> r.dev, runs |-> r.runs, resp |-> r.resp, exc |-> <<>>,
          delay |-> r.delay, caught |-> <<>>]

\* call_tool: the chain inside try/except Exception.  caught is the message
\* of the exception converted at the boundary, exc what leaves call_tool.
Caught(r) ==
    IF r.exc # <<>>
    THEN [dev |-> r.dev, runs |-> r.runs,
          resp |-> <<TextContent(<<"Error", ": ">> \o r.exc[1])>>,
          exc |-> <<>>, delay |-> 0, caught |-> r.exc]
    ELSE [dev |-> r.dev, runs |-> r.runs, resp |-> r.resp, exc |-> <<>>,
          delay |-> r.delay, caught |-> <<>>]

call_tool(dev, path, name, a, env) == Caught(Dispatch(dev, path, name, a, env))

----------------------------------------------------------------------------
(* The server: state, construction and one action per tool *)

AdbLocations ==
    <<"adb", "~/Android/Sdk/platform-tools/adb",
      "~/Library/Android/sdk/platform-tools/adb", "/usr/local/bin/adb">>

\* _find_adb: the first location whose `version` run exits 0, else "adb".
find_adb(works) ==
    LET found == SelectSeq(AdbLocations, LAMBDA l : l \in works)
    IN IF found # <<>> THEN found[1] ELSE "adb"

\* The sets of locations at which an adb answers `version`.
WorkingLocations == {{}, {AdbLocations[3], AdbLocations[4]}}

\* The files the calls copy.  A specification that follows file contents
\* starts with files.tracked; local maps a path of the host to its content,
\* device maps <<serial, path>> to the content of that path on that device,
\* and pushed holds, for each device path, the content of the local file at
\* the last push_file request that reported success for it.
NoFiles == [tracked |-> FALSE, local |-> EmptyDict, device |-> EmptyDict, pushed |-> {}]

\* d with key k set to v.
Put(d, k, v) == [x \in DOMAIN d \cup {k} |-> IF x = k THEN v ELSE d[x]]

\* What one run of adb that exited 0 did to the files: `adb -s serial push
\* local remote` copies the local file to the device, `adb -s serial pull
\* remote local` copies the device file to the host; a copy whose source
\* does not exist copies nothing.
AdbCopied(f, r) ==
    IF r.code # 0 \/ Len(r.cmd) # 6 \/ r.cmd[2] # "-s" THEN f
    ELSE IF r.cmd[4] = "push" /\ Has(f.local, r.cmd[5])
         THEN [f EXCEPT !.device = Put(@, <<r.cmd[3], r.cmd[6]>>, f.local[r.cmd[5]])]
    ELSE IF r.cmd[4] = "pull" /\ Has(f.device, <<r.cmd[3], r.cmd[5]>>)
         THEN [f EXCEPT !.local = Put(@, r.cmd[6], f.device[<<r.cmd[3], r.cmd[5]>>])]
    ELSE f

RECURSIVE AdbEffect(_, _)
\* The files after the process runs of a call, in order.
AdbEffect(f, runs) ==
    IF runs = <<>> THEN f ELSE AdbEffect(AdbCopied(f, Head(runs)), Tail(runs))

\* The call is a push_file request answered with the success text.
PushReported(c) ==
    /\ c.name = "push_file" /\ c.caught = <<>> /\ Len(c.resp) = 1
    /\ c.resp[1].text[1] = "File pushed successfully:\nFrom: "

\* The record of the push_file request c, made when it reported success:
\* the content its local file had before the call.
NotePush(pushed, before, c) ==
    IF PushReported(c) /\ Has(before.local, c.arguments.local_path)
    THEN {q \in pushed : ~(q.dev = c.dev0 /\ q.remote = c.arguments.remote_path)}
         \cup {[dev |-> c.dev0, remote |-> c.arguments.remote_path,
                content |-> before.local[c.arguments.local_path]]}
    ELSE pushed

\* The files after the call c.
AfterCall(f, c) ==
    IF ~f.tracked THEN f
    ELSE [AdbEffect(f, c.runs) EXCEPT !.pushed = NotePush(@, f, c)]

\* The record of a call: the request, what the outside world did during it,
\* the serial held before and after, and what call_tool did.
NoCall ==
    [name |-> "", arguments |-> EmptyDict, env |-> EmptyDict, dev0 |-> None,
     dev |-> None, runs |-> <<>>, resp |-> <<>>, exc |-> <<>>, caught |-> <<>>,
     delay |-> 0, phase |-> "init"]

CallRecord(name, a, env, dev0, r) ==
    [name |-> name, arguments |-> a, env |-> env, dev0 |-> dev0, dev |-> r.dev,
     runs |-> r.runs, resp |-> r.resp, exc |-> r.exc, caught |-> r.caught,
     delay |-> r.delay, phase |-> IF r.delay > 0 THEN "sleeping" ELSE "returned"]

Commit(c) ==
    /\ current_device' = c.dev
    /\ call' = c
    /\ sleeping' = IF c.phase = "sleeping" THEN sleeping \cup {c} ELSE sleeping
    /\ files' = AfterCall(files, c)
    /\ UNCHANGED <<adb_path, installer, script, tools>>

\* One request handled up to the point where call_tool returns or suspends
\* in its settling delay.
Serve(name, a, env) ==
    Commit(CallRecord(name, a, env, current_device,
                      call_tool(current_device, adb_path, name, a, env)))

\* A call that taps once more when its delay is over, at the device held by
\* then: C26 tells it from the code.
WakeAndTap ==
    \E c \in sleeping :
       /\ call' = [c EXCEPT !.phase = "returned",
                            !.runs = Append(@, [@[Len(@)] EXCEPT
                                                  !.cmd = AdbCmd(current_device, adb_path,
                                                                 <<"shell", "input", "tap",
                                                                   "0", "0">>)])]
       /\ sleeping' = sleeping \ {c}
       /\ UNCHANGED <<current_device, adb_path, installer, files, script, tools>>

\* The settling delay of a suspended call elapses and its response is
\* returned.
Wake ==
    \E c \in sleeping :
       /\ call' = [c EXCEPT !.phase = "returned"]
       /\ sleeping' = sleeping \ {c}
       /\ UNCHANGED <<current_device, adb_path, installer, files, script, tools>>

\* The response of the call is written to the client and the dispatch loop
\* is ready for the next request.
SendResponse ==
    /\ call.phase = "returned" \/ tools # <<>>
    /\ call' = NoCall
    /\ tools' = <<>>
    /\ UNCHANGED <<current_device, adb_path, sleeping, installer, files, script>>

----------------------------------------------------------------------------
(* The certificate installer script (cert_installer.py) *)

\* CertificateInstaller.run_adb: no timeout and no handler, so a failure to
\* launch propagates to the caller (raised is <<msg>>).
ci_run_adb(device_serial, args, p) ==
    [cmd |-> AdbCmd(device_serial, "adb", args),
     stdout |-> p.stdout, stderr |-> p.stderr, code |-> p.code,
     raised |-> IF p.kind = "raise" THEN <<p.stderr>> ELSE <<>>]

\* What a method of the installer did: the process runs, the lines printed,
\* the value returned, and the exception that left it (<<>> when none).
CiResult(runs, printed, ret, exc) ==
    [runs |-> runs, printed |-> printed, ret |-> ret, exc |-> exc]

\* `text in stdout`
ContainsSeq(t, text) ==
    \E i \in 1..(Len(t) - Len(text) + 1) : SubSeq(t, i, i + Len(text) - 1) = text

DumpToTty == <<"shell", "uiautomator", "dump", "/dev/tty">>

RECURSIVE wait_for_ui(_, _, _, _)
\* wait_for_ui: one dump per iteration; polls are the fates of the dumps
\* that fit in the timeout.
wait_for_ui(device_serial, text, polls, runs) ==
    IF polls = <<>> THEN CiResult(runs, <<>>, FALSE, <<>>)
    ELSE IF Head(polls).kind = "raise"
    THEN CiResult(Append(runs, ci_run_adb(device_serial, DumpToTty, Head(polls))),
                  <<>>, FALSE, <<Head(polls).stderr>>)
    ELSE IF ContainsSeq(Head(polls).stdout, text)
    THEN CiResult(Append(runs, ci_run_adb(device_serial, DumpToTty, Head(polls))),
                  <<>>, TRUE, <<>>)
    ELSE wait_for_ui(device_serial, text, Tail(polls),
                     Append(runs, ci_run_adb(device_serial, DumpToTty, Head(polls))))

RECURSIVE DigitsEnd(_, _)
\* The index after the digits of t that start at i.
DigitsEnd(t, i) ==
    IF i <= Len(t) /\ IsDigit(t[i]) THEN DigitsEnd(t, i + 1) ELSE i

Lit(t, i, c) == i <= Len(t) /\ t[i] = c

\* int() of the digits t[i..j-1]
IntOf(t, i, j) == DigitRuns(SubSeq(t, i, j - 1), <<>>, <<>>)[1]

\* \[(\d+),(\d+)\]\[(\d+),(\d+)\]" matched at j: <<groups>>, or <<>>.
BoundsGroups(t, j, e1, e2, e3, e4) ==
    IF /\ Lit(t, j, "[") /\ e1 > j + 1 /\ Lit(t, e1, ",")
       /\ e2 > e1 + 1 /\ Lit(t, e2, "]") /\ Lit(t, e2 + 1, "[")
       /\ e3 > e2 + 2 /\ Lit(t, e3, ",")
       /\ e4 > e3 + 1 /\ Lit(t, e4, "]") /\ Lit(t, e4 + 1, Q)
    THEN <<<<IntOf(t, j + 1, e1), IntOf(t, e1 + 1, e2),
             IntOf(t, e2 + 2, e3), IntOf(t, e3 + 1, e4)>>>>
    ELSE <<>>

BoundsAt(t, j) ==
    BoundsGroups(t, j, DigitsEnd(t, j + 1), DigitsEnd(t, DigitsEnd(t, j + 1) + 1),
                 DigitsEnd(t, DigitsEnd(t, DigitsEnd(t, j + 1) + 1) + 2),
                 DigitsEnd(t, DigitsEnd(t, DigitsEnd(t, DigitsEnd(t, j + 1) + 1) + 2) + 1))

\* The tokens of a dump that hold a '>'.
HasGt(tok) == tok \in {"/>", "<hierarchy>", "</hierarchy>"}

\* The places after position k where bounds=" follows with no '>' between
\* and the bracket form matches.
BoundsAfter(t, k) ==
    {j \in (k + 1)..Len(t) :
        /\ t[j] = AttrOpen("bounds")
        /\ \A m \in (k + 1)..(j - 1) : ~HasGt(t[m])
        /\ BoundsAt(t, j + 1) # <<>>}

\* The pattern of find_element_bounds matches with text=" at position i.
MatchAt(t, i, text) ==
    /\ t[i] = AttrOpen("text")
    /\ i + Len(text) + 1 <= Len(t)
    /\ SubSeq(t, i + 1, i + Len(text)) = text
    /\ t[i + Len(text) + 1] = Q
    /\ BoundsAfter(t, i + Len(text) + 1) # {}

\* re.search(pattern, stdout).groups(): <<groups>> of the leftmost match,
\* or <<>>.
ReSearch(t, text) ==
    IF \E i \in DOMAIN t : MatchAt(t, i, text)
    THEN LET i == CHOOSE i \in DOMAIN t :
                     MatchAt(t, i, text) /\ \A h \in 1..(i - 1) : ~MatchAt(t, h, text)
             j == CHOOSE j \in BoundsAfter(t, i + Len(text) + 1) : TRUE
         IN BoundsAt(t, j + 1)
    ELSE <<>>

\* The midpoint find_element_bounds computes from the four groups.
ci_center(g) == <<(g[1] + g[3]) \div 2, (g[2] + g[4]) \div 2>>

\* find_element_bounds: ret is <<center>>, or <<>> for None.
find_element_bounds(device_serial, text, p) ==
    IF p.kind = "raise"
    THEN CiResult(<<ci_run_adb(device_serial, DumpToTty, p)>>, <<>>, <<>>, <<p.stderr>>)
    ELSE CiResult(<<ci_run_adb(device_serial, DumpToTty, p)>>, <<>>,
                  IF ReSearch(p.stdout, text) = <<>> THEN <<>>
                  ELSE <<ci_center(ReSearch(p.stdout, text)[1])>>,
                  <<>>)

\* tap: the result of the tap command is ignored.
tap(device_serial, x, y, p) ==
    CiResult(<<ci_run_adb(device_serial, <<"shell", "input", "tap", IntStr(x), IntStr(y)>>, p)>>,
             <<>>, None,
             IF p.kind = "raise" THEN <<p.stderr>> ELSE <<>>)

\* tap_text once the coordinates were looked up (b); ret is "True", "False",
\* or None when an exception left the method.
TapTextAt(device_serial, runs, b, p) ==
    IF b.exc # <<>> THEN CiResult(runs \o b.runs, <<>>, None, b.exc)
    ELSE IF b.ret = <<>> THEN CiResult(runs \o b.runs, <<>>, "False", <<>>)
    ELSE CiResult(runs \o b.runs \o tap(device_serial, b.ret[1][1], b.ret[1][2], p).runs,
                  <<>>,
                  IF p.kind = "raise" THEN None ELSE "True",
                  tap(device_serial, b.ret[1][1], b.ret[1][2], p).exc)

\* tap_text once the wait is over (w).
TapTextAfterWait(device_serial, text, w, final, p) ==
    IF w.exc # <<>> THEN CiResult(w.runs, <<>>, None, w.exc)
    ELSE IF ~w.ret
    THEN CiResult(w.runs, <<<<"Could not find element with text: ">> \o text>>,
                  "False", <<>>)
    ELSE TapTextAt(device_serial, w.runs, find_element_bounds(device_serial, text, final), p)

\* tap_text: polls are the dumps of the wait, final the dump of the lookup,
\* p the fate of the tap command.
tap_text(device_serial, text, polls, final, p) ==
    TapTextAfterWait(device_serial, text,
                     wait_for_ui(device_serial, text, polls, <<>>), final, p)

\* The installer before any of its methods ran.
NoStep ==
    [device_serial |-> None, op |-> "", text |-> <<>>, env |-> EmptyDict,
     runs |-> <<>>, printed |-> <<>>, ret |-> None, exc |-> <<>>, phase |-> "init"]

StepRecord(device_serial, op, text, env, r) ==
    [device_serial |-> device_serial, op |-> op, text |-> text, env |-> env,
     runs |-> r.runs, printed |-> r.printed, ret |-> r.ret, exc |-> r.exc,
     phase |-> "done"]

\* A run of a standalone script from its main(): the program, the place it
\* stands at, the installer's serial and certificate path, the command
\* lines run and the lines printed so far, the first required step that
\* failed with the number of commands run by then (<<>> while none has),
\* the value install_certificate or run_all_tests returned, the exception
\* that left main, the exit status, and the harness's results.
NoScript ==
    [prog |-> "", pc |-> "init", device_serial |-> None, cert_path |-> <<>>,
     cmds |-> <<>>, printed |-> <<>>, failed |-> <<>>, ret |-> None,
     raised |-> <<>>, exit |-> None, results |-> <<>>]

----------------------------------------------------------------------------
(* The outside world, within bounds *)

ErrText == <<"error: device offline">>
RaiseText == <<"[Errno 2] No such file or directory: 'adb'">>

POk(stdout) == Exited(stdout, <<>>, 0)
PFail == Exited(<<>>, ErrText, 1)
Failures == {PFail, TimedOut, LaunchRaised(RaiseText)}
Fates(stdout) == {POk(stdout)} \cup Failures

NoFile == FileUnreadable(<<>>)

\* An environment of a call that launches at most one process.
Env1(p) == [procs |-> <<p>>, file |-> NoFile, exists |-> TRUE, screen |-> <<>>]

\* The fates of n processes run in a row where each is launched only after
\* the one before exited 0.
Chains(n, stdout) ==
    {[i \in 1..n |-> POk(stdout)]}
    \cup {[i \in 1..n |-> IF i = k THEN f ELSE POk(stdout)] : k \in 1..n, f \in Failures}

Serials == {"emulator-5554", "emulator-5556", ""}

\* The lines `adb devices -l` may print after its header, each as its
\* fields: two devices, a line of one field and a blank line.
AttachedLines ==
    {<<"emulator-5554", "device">>,
     <<"emulator-5556", "offline", "product:sdk_gphone64", "model:Pixel_7">>,
     <<"orphan">>, <<>>}

\* The number of lines after the header.
MaxAttached == 2

RECURSIVE RenderLines(_)
\* The lines as adb prints them, fields separated by a space.
RenderLines(lines) ==
    IF lines = <<>> THEN <<>>
    ELSE JoinWith([i \in DOMAIN Head(lines) |-> <<Head(lines)[i]>>], " ")
         \o <<"\n">> \o RenderLines(Tail(lines))

\* The stdout of `adb devices -l`: header, lines, and the closing blank line.
DevicesOutput(lines) ==
    <<"List of devices attached", "\n">> \o RenderLines(lines) \o <<"\n">>

RECURSIVE DigitsOf(_)
\* The decimal digits of n, one token each.
DigitsOf(n) ==
    IF n < 10 THEN <<Digit[n + 1]>> ELSE Append(DigitsOf(n \div 10), Digit[(n % 10) + 1])

\* The bounds attribute uiautomator writes for a rectangle.
BoundsText(x1, y1, x2, y2) ==
    <<"[">> \o DigitsOf(x1) \o <<",">> \o DigitsOf(y1) \o <<"]", "[">>
    \o DigitsOf(x2) \o <<",">> \o DigitsOf(y2) \o <<"]">>

Node(text, rid, cls, desc, bounds) ==
    ("text" :> text) @@ ("resource-id" :> rid) @@ ("class" :> cls)
    @@ ("content-desc" :> desc) @@ ("bounds" :> bounds)

\* The rectangles of the nodes on screen.
Rects == {<<10, 20, 110, 120>>, <<0, 0, 5, 8>>, <<1, 2, 4, 7>>}

RectBounds(r) == BoundsText(r[1], r[2], r[3], r[4])

OkButton ==
    Node(<<"OK">>, <<"id/ok">>, <<"Button">>, <<"Confirm">>, RectBounds(<<10, 20, 110, 120>>))
CancelButton ==
    Node(<<"Cancel">>, <<"id/cancel">>, <<"Button">>, <<"Dismiss">>, RectBounds(<<0, 0, 5, 8>>))

\* The nodes a screen may show: a button, a second button, a case variant
\* and a superstring of the first button's text, a node without bounds, a
\* node whose bounds are cut short after the third number, a node whose
\* bounds lack the closing bracket, a label reading "Error", and a button
\* reading "No matching elements".
NodePool ==
    {OkButton, CancelButton,
     Node(<<"ok">>, <<"id/ok">>, <<"TextView">>, <<"Confirm">>, RectBounds(<<1, 2, 4, 7>>)),
     Node(<<"OK", "AY">>, <<"id/okay">>, <<"Button">>, <<>>, RectBounds(<<0, 0, 5, 8>>)),
     ("text" :> <<"OK">>) @@ ("class" :> <<"Button">>),
     Node(<<"OK">>, <<"id/cut">>, <<"Button">>, <<"Confirm">>,
          <<"[", "1", "0", ",", "2", "0", "]", "[", "1", "1", "0">>),
     Node(<<"Open">>, <<"id/open">>, <<"Button">>, <<>>,
          <<"[", "1", "0", ",", "2", "0", "]", "[", "1", "1", "0", ",", "1", "2", "0">>),
     Node(<<"Error">>, <<"id/msg">>, <<"TextView">>, <<>>, RectBounds(<<1, 2, 4, 7>>)),
     Node(<<"No matching elements">>, <<"id/empty">>, <<"Button">>, <<>>,
          RectBounds(<<0, 0, 5, 8>>))}

\* The number of nodes on a screen.
MaxNodes == 2

RECURSIVE SeqsUpTo(_, _)
\* The sequences over S of length at most n.
SeqsUpTo(S, n) ==
    IF n = 0 THEN {<<>>}
    ELSE SeqsUpTo(S, n - 1)
         \cup {Append(q, x) : q \in {q \in SeqsUpTo(S, n - 1) : Len(q) = n - 1}, x \in S}

Screens == SeqsUpTo(NodePool, MaxNodes)

Attached == SeqsUpTo(AttachedLines, MaxAttached)

\* The local UI dump read back by the server, with the screen the device
\* showed when it was dumped (<<nodes>>): the dump of a screen, an empty
\* file, a dump cut short, or a file that cannot be read.
UiFiles ==
    {[file |-> FileContent(XmlDump(n)), screen |-> <<n>>] : n \in Screens}
    \cup {[file |-> f, screen |-> <<>>] :
             f \in {FileContent(<<>>),
                    FileContent(<<"<hierarchy>", "<node", AttrOpen("text"), "OK">>),
                    FileUnreadable(<<"[Errno 13] Permission denied">>)}}

Criteria ==
    {EmptyDict, [text |-> <<"OK">>], [text |-> <<"ok">>],
     [text |-> <<"Error">>], [class_name |-> <<"Button">>],
     [text |-> <<"OK">>, class_name |-> <<"Button">>],
     [text |-> <<"OK">>, resource_id |-> <<"id/cancel">>],
     [content_desc |-> <<"Dismiss">>], [index |-> <<"0">>],
     [resource_id |-> <<"id/open">>]}

\* The fates of the processes and of the file read of a UI call that
\* launches up to n processes: a file is read only when dump and pull both
\* exited 0, and a process after them exits.
UiEnvs(n) ==
    {[procs |-> ps, file |-> f.file, exists |-> TRUE, screen |-> f.screen] :
        ps \in {c \in Chains(n, <<>>) :
                    /\ \A i \in 1..2 : c[i].code = 0 /\ c[i].kind = "exit"
                    /\ \A i \in 3..n : c[i].kind = "exit"},
        f \in UiFiles}
    \cup {[procs |-> ps, file |-> NoFile, exists |-> TRUE, screen |-> <<>>] :
             ps \in {c \in Chains(n, <<>>) : c[1] \in Failures \/ c[2] \in Failures}}

Coordinates == {Num(60), Num(70), Str("abc")}

\* What `uiautomator dump /dev/tty` writes for a screen.
TtyDump(nodes) == XmlDump(nodes) \o <<"UI hierchary dumped to: /dev/tty">>

\* The texts the script looks for: a button, a class name that is no text,
\* the prefix of a longer text, and a text no screen shows.
InstallerTexts == {<<"OK">>, <<"Cancel">>, <<"Button">>, <<"Missing">>}

\* The screens the script meets.
InstallerScreens ==
    {s \in Screens :
        \/ Len(s) <= 1
        \/ s[2] = CancelButton}

InstallerFates ==
    {POk(TtyDump(s)) : s \in InstallerScreens} \cup {PFail, LaunchRaised(RaiseText)}

\* The number of dumps that fit in the timeout of a wait.
MaxPolls == 2

InstallerPolls ==
    SeqsUpTo({POk(TtyDump(<<>>)), POk(TtyDump(<<OkButton>>)), LaunchRaised(RaiseText)},
             MaxPolls)
    \ {<<>>}

----------------------------------------------------------------------------
(* The state machine *)

Init ==
    /\ current_device = None
    /\ \E works \in WorkingLocations : adb_path = find_adb(works)
    /\ call = NoCall
    /\ sleeping = {}
    /\ installer = NoStep
    /\ files = NoFiles
    /\ script = NoScript
    /\ tools = <<>>

\* The dispatch loop takes the next request only when no call is in flight.
Idle == call.phase = "init" /\ sleeping = {} /\ installer.phase = "init" /\ tools = <<>>

\* One tap_text step of the script.  The script is a program of its own and
\* shares no state with the server; the model runs it before the server
\* has selected a device.
TapText ==
    /\ Idle /\ current_device = None
    /\ \E device_serial \in {None, "emulator-5554"}, text \in InstallerTexts,
          polls \in InstallerPolls, final \in InstallerFates, p \in Fates(<<>>) \ {TimedOut} :
          installer' = StepRecord(device_serial, "tap_text", text,
                                  [polls |-> polls, final |-> final, tap |-> p],
                                  tap_text(device_serial, text, polls, final, p))
    /\ UNCHANGED <<current_device, adb_path, call, sleeping, files, script, tools>>

\* The step is over and the script has gone on.
StepDone ==
    /\ installer.phase = "done"
    /\ installer' = NoStep
    /\ UNCHANGED <<current_device, adb_path, call, sleeping, files, script, tools>>

----------------------------------------------------------------------------
(* The requests *)

ListDevices ==
    /\ Idle
    /\ \E attached \in Attached, failed \in {<<>>} \cup {<<f>> : f \in Failures} :
          Serve("list_devices", EmptyDict,
                [procs |-> <<IF failed = <<>> THEN POk(DevicesOutput(attached))
                             ELSE failed[1]>>,
                 file |-> NoFile, exists |-> TRUE, screen |-> <<>>,
                 attached |-> IF failed = <<>> THEN attached ELSE <<>>])

SelectDevice ==
    /\ Idle
    /\ \E a \in {EmptyDict} \cup {[serial |-> s] : s \in Serials} :
          Serve("select_device", a, Env1(PFail))

GetDeviceInfo ==
    /\ Idle
    /\ \E ps \in [1..5 -> {POk(<<"Pixel", "\n">>), PFail}]
                 \cup {[i \in 1..5 |-> TimedOut]} :
          Serve("get_device_info", EmptyDict,
                [procs |-> ps, file |-> NoFile, exists |-> TRUE, screen |-> <<>>])

\* The dump or the pull fails while /tmp/ui_hierarchy.xml still holds the
\* dump of an earlier call.
StaleEnvs ==
    {[procs |-> ps, file |-> FileContent(XmlDump(<<OkButton>>)), exists |-> TRUE,
      screen |-> <<>>] :
        ps \in {c \in Chains(2, <<>>) : c[1] \in Failures \/ c[2] \in Failures}}

GetUiHierarchy ==
    /\ Idle
    /\ \E env \in UiEnvs(2) \cup StaleEnvs : Serve("get_ui_hierarchy", EmptyDict, env)

FindElement ==
    /\ Idle
    /\ \E a \in Criteria, env \in UiEnvs(2) : Serve("find_element", a, env)

TapCoordinates ==
    /\ Idle
    /\ \E a \in {EmptyDict, [x |-> Num(60)]}
               \cup {[x |-> x, y |-> y] : x, y \in Coordinates},
          p \in Fates(<<>>) :
          Serve("tap_coordinates", a, Env1(p))

TapElement ==
    /\ Idle
    /\ \E a \in Criteria, env \in UiEnvs(3) : Serve("tap_element", a, env)

PressKey ==
    /\ Idle
    /\ \E a \in {EmptyDict}
               \cup {[key |-> k] : k \in {KeyNames[i] : i \in DOMAIN KeyNames}
                                          \cup {"unknown", "BACK", ""}},
          p \in Fates(<<>>) :
          Serve("press_key", a, Env1(p))

ImageFiles == {FileContent(<<"iVBORw0KGgo=">>), FileUnreadable(<<"[Errno 13] Permission denied">>)}

CaptureScreenshot ==
    /\ Idle
    /\ \E a \in {EmptyDict, [save_path |-> "/tmp/shot.png"]},
          ps \in Chains(2, <<>>), f \in ImageFiles :
          Serve("capture_screenshot", a, [procs |-> ps, file |-> f, exists |-> TRUE, screen |-> <<>>])

Swipe ==
    /\ Idle
    /\ \E a \in {EmptyDict,
                [start_x |-> Num(5), start_y |-> Num(80), end_x |-> Num(5)],
                [start_x |-> Num(5), start_y |-> Num(80), end_x |-> Num(5),
                 end_y |-> Num(20)],
                [start_x |-> Num(5), start_y |-> Num(80), end_x |-> Num(5),
                 end_y |-> Num(20), duration |-> 150],
                [start_x |-> Num(5), start_y |-> Str("top"), end_x |-> Num(5),
                 end_y |-> Num(20)]},
          p \in Fates(<<>>) :
          Serve("swipe", a, Env1(p))

Texts ==
    {<<"h", "i">>, <<"a", " ", "b">>, <<"i", "t", "'", "s">>, <<>>,
     <<"\"", "a", " ", "b", "\"">>}

InputText ==
    /\ Idle
    /\ \E a \in {EmptyDict} \cup {[text |-> t] : t \in Texts}, p \in Fates(<<>>) :
          Serve("input_text", a, Env1(p))

\* An environment of a call that looks for a local file and launches at
\* most one process.
EnvFile(p, exists) == [procs |-> <<p>>, file |-> NoFile, exists |-> exists, screen |-> <<>>]

Packages == {"com.example.app", ""}

InstallApp ==
    /\ Idle
    /\ \E a \in {EmptyDict, [apk_path |-> "/tmp/app.apk"]},
          p \in Fates(<<"Success", "\n">>), e \in BOOLEAN :
          Serve("install_app", a, EnvFile(p, e))

LaunchApp ==
    /\ Idle
    /\ \E a \in {EmptyDict} \cup {[package |-> k] : k \in Packages}, p \in Fates(<<>>) :
          Serve("launch_app", a, Env1(p))

StopApp ==
    /\ Idle
    /\ \E a \in {EmptyDict} \cup {[package |-> k] : k \in Packages}, p \in Fates(<<>>) :
          Serve("stop_app", a, Env1(p))

ClearAppData ==
    /\ Idle
    /\ \E a \in {EmptyDict} \cup {[package |-> k] : k \in Packages},
          p \in Fates(<<"Success", "\n">>) :
          Serve("clear_app_data", a, Env1(p))

ListPackages ==
    /\ Idle
    /\ \E a \in {EmptyDict, [filter |-> "example"], [filter |-> ""]},
          p \in Fates(<<"package:", "com.example.app", "\n", "package:", "android", "\n">>)
                \cup {POk(<<>>)} :
          Serve("list_packages", a, Env1(p))

SetupProxy ==
    /\ Idle
    /\ \E a \in {EmptyDict, [host |-> "10.0.2.2"], [host |-> "10.0.2.2", port |-> 8080]},
          p \in Fates(<<>>) :
          Serve("setup_proxy", a, Env1(p))

ClearProxy ==
    /\ Idle
    /\ \E p \in Fates(<<>>) : Serve("clear_proxy", EmptyDict, Env1(p))

InstallCertificate ==
    /\ Idle
    /\ \E a \in {EmptyDict, [cert_path |-> "/tmp/ca.pem"]}, p \in Fates(<<>>),
          e \in BOOLEAN :
          Serve("install_certificate", a, EnvFile(p, e))

ExecuteShell ==
    /\ Idle
    /\ \E a \in {EmptyDict, [command |-> "ls /sdcard"]},
          p \in Fates(<<"Download", "\n">>) \cup {Exited(<<"Download", "\n">>, ErrText, 0)} :
          Serve("execute_shell", a, Env1(p))

PullFile ==
    /\ Idle
    /\ \E a \in {EmptyDict, [remote_path |-> "/sdcard/a.txt"],
                [remote_path |-> "/sdcard/a.txt", local_path |-> "/tmp/a.txt"]},
          p \in Fates(<<"1 file pulled", "\n">>) :
          Serve("pull_file", a, Env1(p))

PushFile ==
    /\ Idle
    /\ \E a \in {EmptyDict, [local_path |-> "/tmp/a.txt"],
                [local_path |-> "/tmp/a.txt", remote_path |-> "/sdcard/a.txt"]},
          p \in Fates(<<"1 file pushed", "\n">>), e \in BOOLEAN :
          Serve("push_file", a, EnvFile(p, e))

\* A tools/list request: the catalog is the response, and no tool runs.
ListTools ==
    /\ Idle
    /\ tools' = list_tools
    /\ UNCHANGED <<current_device, adb_path, call, sleeping, installer, files, script>>

UnknownTool ==
    /\ Idle
    /\ \E name \in {"reboot", "", "Select_Device"},
          a \in {EmptyDict, [serial |-> "emulator-5554"]} :
          Serve(name, a, Env1(POk(<<>>)))

Next ==
    \/ TapText
    \/ StepDone
    \/ ListDevices
    \/ SelectDevice
    \/ GetDeviceInfo
    \/ GetUiHierarchy
    \/ FindElement
    \/ TapCoordinates
    \/ TapElement
    \/ PressKey
    \/ CaptureScreenshot
    \/ Swipe
    \/ InputText
    \/ InstallApp
    \/ LaunchApp
    \/ StopApp
    \/ ClearAppData
    \/ ListPackages
    \/ SetupProxy
    \/ ClearProxy
    \/ InstallCertificate
    \/ ExecuteShell
    \/ PullFile
    \/ PushFile
    \/ UnknownTool
    \/ ListTools
    \/ Wake
    \/ SendResponse

Spec == Init /\ [][Next]_vars

----------------------------------------------------------------------------
(* Requests served while other calls are suspended in their delays *)

\* The number of calls suspended at once.
MaxSuspended == 2

\* The dispatch loop takes a request while no response waits to be written,
\* also when the calls before it are suspended.
Ready ==
    /\ call.phase \in {"init", "sleeping"} /\ installer.phase = "init" /\ tools = <<>>
    /\ Cardinality(sleeping) < MaxSuspended

\* The screen shows the button, or the dump or the pull fails.
DelayEnvs ==
    {e \in UiEnvs(3) : /\ e.screen = <<<<OkButton>>>> \/ e.file = NoFile
                       /\ \A i \in 1..3 : e.procs[i].kind = "exit"}

SelectDuringDelay ==
    /\ Ready
    /\ \E s \in Serials : Serve("select_device", [serial |-> s], Env1(PFail))

TapElementDuringDelay ==
    /\ Ready
    /\ \E env \in DelayEnvs : Serve("tap_element", [text |-> <<"OK">>], env)

GetDeviceInfoDuringDelay ==
    /\ Ready
    /\ \E ps \in {[i \in 1..5 |-> POk(<<"Pixel", "\n">>)], [i \in 1..5 |-> PFail]} :
          Serve("get_device_info", EmptyDict,
                [procs |-> ps, file |-> NoFile, exists |-> TRUE, screen |-> <<>>])

PressKeyDuringDelay ==
    /\ Ready
    /\ \E p \in {POk(<<>>), PFail} : Serve("press_key", [key |-> "home"], Env1(p))

InterleavedNext ==
    \/ SelectDuringDelay
    \/ TapElementDuringDelay
    \/ GetDeviceInfoDuringDelay
    \/ PressKeyDuringDelay
    \/ Wake
    \/ SendResponse

InterleavedSpec == Init /\ [][InterleavedNext]_vars

----------------------------------------------------------------------------
(* File transfer with the file contents followed *)

TestFile == "/tmp/android_test_file.txt"
OtherFile == "/tmp/other.txt"
PulledFile == "/tmp/android_test_file_pulled.txt"
RemoteFile == "/sdcard/test_file.txt"

\* Two local files of different content; the device path is absent or holds
\* older content on one of the devices.
FileInit ==
    /\ current_device = None
    /\ \E works \in WorkingLocations : adb_path = find_adb(works)
    /\ call = NoCall
    /\ sleeping = {}
    /\ installer = NoStep
    /\ \E device \in {EmptyDict, <<"emulator-5554", RemoteFile>> :> "old content"} :
          files = [tracked |-> TRUE,
                   local |-> (TestFile :> "Test content from MCP server")
                             @@ (OtherFile :> "other content"),
                   device |-> device, pushed |-> {}]
    /\ script = NoScript
    /\ tools = <<>>

\* The fates of a copy by adb: it exits 0 only when its source exists.
CopyFates(stdout, source_exists) ==
    IF source_exists THEN Fates(stdout) ELSE Failures

\* push_file of a local path that may not exist.
PushTracked ==
    /\ Idle
    /\ \E l \in {TestFile, OtherFile, PulledFile} :
       \E p \in CopyFates(<<"1 file pushed", "\n">>, Has(files.local, l)) :
          Serve("push_file", [local_path |-> l, remote_path |-> RemoteFile],
                EnvFile(p, Has(files.local, l)))

\* pull_file of the device path to a new local path.
PullTracked ==
    /\ Idle
    /\ \E p \in CopyFates(<<"1 file pulled", "\n">>,
                          Has(files.device, <<current_device, RemoteFile>>)) :
          Serve("pull_file", [remote_path |-> RemoteFile, local_path |-> PulledFile],
                Env1(p))

FileNext ==
    \/ SelectDevice
    \/ PushTracked
    \/ PullTracked
    \/ SendResponse

FileSpec == FileInit /\ [][FileNext]_vars

----------------------------------------------------------------------------
(* cert_installer.py run from main() *)

Cmds(runs) == [i \in DOMAIN runs |-> runs[i].cmd]

\* What a step of install_certificate did: the command lines run, the lines
\* printed, and whether the step did what it is there for.
StepResult(cmds, printed, ok) == [cmds |-> cmds, printed |-> printed, ok |-> ok]

\* The result of a tap_text call as a step.
TapStep(r) == StepResult(Cmds(r.runs), r.printed, r.ret = "True")

Then(a, b) == StepResult(a.cmds \o b.cmds, a.printed \o b.printed, b.ok)

\* text.replace(a, b) on tokens.
ReplaceAll(text, a, b) == [i \in DOMAIN text |-> IF text[i] = a THEN b ELSE text[i]]

\* A dump that shows a label with the text, and a dump that shows nothing.
Label(text) == Node(text, <<>>, <<"TextView">>, <<>>, RectBounds(<<10, 20, 110, 120>>))
Shown(text) == POk(TtyDump(<<Label(text)>>))
Blank == POk(TtyDump(<<>>))

\* tap_text on a device that shows the text, or shows nothing until the
\* timeout.
TapTextOn(device_serial, text, shown) ==
    tap_text(device_serial, text, <<IF shown THEN Shown(text) ELSE Blank>>,
             Shown(text), POk(<<>>))

XAt(t, i) == t[i] = "x" /\ IsDigit(t[i - 1]) /\ IsDigit(t[i + 1])

RECURSIVE RunStart(_, _)
\* The index where the digits that end at i start.
RunStart(t, i) == IF i > 1 /\ IsDigit(t[i - 1]) THEN RunStart(t, i - 1) ELSE i

SizeGroups(t, i) ==
    <<<<IntOf(t, RunStart(t, i - 1), i), IntOf(t, i + 1, DigitsEnd(t, i + 1))>>>>

\* re.search(r'(\d+)x(\d+)', stdout): <<groups>> of the leftmost match, or
\* <<>>.
SizeSearch(t) ==
    IF \E i \in 2..(Len(t) - 1) : XAt(t, i)
    THEN SizeGroups(t, CHOOSE i \in 2..(Len(t) - 1) :
                           XAt(t, i) /\ \A h \in 2..(i - 1) : ~XAt(t, h))
    ELSE <<>>

\* The swipe of scroll_down on a screen of the given size; int(height * 0.8)
\* and int(height * 0.2) are exact for the heights used here.
ScrollSwipe(device_serial, g) ==
    AdbCmd(device_serial, "adb",
           <<"shell", "input", "swipe", IntStr(g[1] \div 2), IntStr((g[2] * 8) \div 10),
             IntStr(g[1] \div 2), IntStr((g[2] * 2) \div 10), "300">>)

\* scroll_down: size is the fate of `wm size`.
scroll_down(device_serial, size) ==
    StepResult(<<AdbCmd(device_serial, "adb", <<"shell", "wm", "size">>)>>
               \o (IF SizeSearch(size.stdout) = <<>> THEN <<>>
                   ELSE <<ScrollSwipe(device_serial, SizeSearch(size.stdout)[1])>>),
               <<>>, TRUE)

\* for _ in range(3)
Attempts == 3

RECURSIVE TryEntries(_, _, _, _, _, _, _)
\* The loops of steps 5 and 6: in each attempt tap_text on each text in
\* turn, break on the first that returns True, else scroll down.  The
\* device shows text number find[2] in attempt find[1].
\* A loop that goes on after a tap that succeeded: C21 tells it from the
\* code.
TryEntriesNoBreak(device_serial, texts, find, size, it, j, done, r) ==
    TryEntries(device_serial, texts, find, size, it, j + 1, Then(done, r))

TryEntriesTapped(device_serial, texts, find, size, it, j, done, r) ==
    IF r.ok THEN Then(done, r)
    ELSE TryEntries(device_serial, texts, find, size, it, j + 1, Then(done, r))

TryEntries(device_serial, texts, find, size, it, j, done) ==
    IF it > Attempts THEN StepResult(done.cmds, done.printed, FALSE)
    ELSE IF j > Len(texts)
    THEN TryEntries(device_serial, texts, find, size, it + 1, 1,
                    Then(done, scroll_down(device_serial, size)))
    ELSE TryEntriesTapped(device_serial, texts, find, size, it, j, done,
                          TapStep(TapTextOn(device_serial, texts[j], find = <<it, j>>)))

NoStepYet == StepResult(<<>>, <<>>, TRUE)

\* Step 4: "Security", else "Biometrics and security".
SecurityAfterFirst(device_serial, r, second) ==
    IF r.ok THEN r
    ELSE Then(r, TapStep(TapTextOn(device_serial, <<"Biometrics and security">>, second)))

security_step(device_serial, first, second) ==
    SecurityAfterFirst(device_serial, TapStep(TapTextOn(device_serial, <<"Security">>, first)),
                       second)

CredentialTexts == <<<<"Encryption & credentials">>, <<"Credential storage">>>>

InstallTexts ==
    <<<<"Install a certificate">>, <<"Install from SD card">>, <<"Install from storage">>>>

\* Step 8: the warning is confirmed if it shows within the timeout.
AnywayAfterWait(device_serial, w, shown) ==
    IF w.ret
    THEN Then(StepResult(Cmds(w.runs),
                         <<<<"Confirming certificate installation warning...">>>>, TRUE),
              TapStep(TapTextOn(device_serial, <<"Install anyway">>, shown)))
    ELSE StepResult(Cmds(w.runs), <<>>, TRUE)

install_anyway_step(device_serial, shown) ==
    AnywayAfterWait(device_serial,
                    wait_for_ui(device_serial, <<"Install anyway">>,
                                <<IF shown THEN Shown(<<"Install anyway">>) ELSE Blank>>,
                                <<>>),
                    shown)

\* Step 9: the menu icon, then "Downloads".
downloads_step(device_serial, shown) ==
    Then(StepResult(<<AdbCmd(device_serial, "adb", <<"shell", "input", "tap", "50", "150">>)>>,
                    <<>>, TRUE),
         TapStep(TapTextOn(device_serial, <<"Downloads">>, shown)))

cert_name == <<"mitmproxy-ca">>

\* Steps 11 and 12: the name is typed, "OK" is tapped, and completion is
\* announced.
ConfirmAfterTap(device_serial, r) ==
    StepResult(<<AdbCmd(device_serial, "adb",
                        <<"shell", "input", "text",
                          Join(ReplaceAll(cert_name, " ", "%s"))>>)>>
               \o r.cmds,
               <<<<"Naming certificate...">>, <<"Confirming installation...">>>>
               \o r.printed \o <<<<"Certificate installation complete!">>>>,
               r.ok)

name_and_confirm(device_serial, shown) ==
    ConfirmAfterTap(device_serial, TapStep(TapTextOn(device_serial, <<"OK">>, shown)))

\* The script after a step that goes on to pc whatever the step did; a
\* required step that failed is noted the first time one does.
Went(sc, pc, head, res, step) ==
    [sc EXCEPT !.pc = pc,
               !.cmds = @ \o res.cmds,
               !.printed = @ \o head \o res.printed,
               !.failed = IF @ = <<>> /\ step # "" /\ ~res.ok
                          THEN <<[step |-> step, at |-> Len(sc.cmds) + Len(res.cmds)]>>
                          ELSE @]

\* An exception leaves main: the interpreter prints the traceback and exits
\* with status 1.
Crashed(sc, msg) == [sc EXCEPT !.pc = "exited", !.raised = <<msg>>, !.exit = "1"]

\* sys.exit(status) after the lines printed.
Exit(sc, lines, status) ==
    [sc EXCEPT !.pc = "exited", !.printed = @ \o lines, !.exit = status]

Usage == <<"Usage: python cert_installer.py <certificate_path> [device_serial]">>

\* main() of cert_installer.py up to the call of install_certificate.
cert_main(argv, exists) ==
    IF Len(argv) < 2
    THEN Exit([NoScript EXCEPT !.prog = "cert_installer"], <<Usage>>, "1")
    ELSE IF ~exists
    THEN Exit([NoScript EXCEPT !.prog = "cert_installer"],
              <<<<"Error: Certificate file not found: ">> \o argv[2]>>, "1")
    ELSE [NoScript EXCEPT !.prog = "cert_installer", !.pc = "convert",
                          !.device_serial = IF Len(argv) > 2 THEN argv[3] ELSE None,
                          !.cert_path = argv[2],
                          !.printed = <<<<"Starting automated certificate installation...">>>>]

\* Step 1: openssl is one of "none" (the path does not end in .pem),
\* "converted", "failed", or "missing" (subprocess.run raises).
convert_step(sc, openssl) ==
    IF sc.cert_path[Len(sc.cert_path)] # ".pem"
    THEN [sc EXCEPT !.pc = "push"]
    ELSE IF openssl = "missing"
    THEN Crashed([sc EXCEPT !.printed = Append(@, <<"Converting PEM to DER format...">>)],
                 <<"[Errno 2] No such file or directory: 'openssl'">>)
    ELSE IF openssl = "converted"
    THEN [sc EXCEPT !.pc = "push",
                    !.cert_path = ReplaceAll(@, ".pem", ".crt"),
                    !.printed = @ \o <<<<"Converting PEM to DER format...">>,
                                       <<"Converted to: ">>
                                       \o ReplaceAll(sc.cert_path, ".pem", ".crt")>>]
    ELSE [sc EXCEPT !.pc = "push",
                    !.printed = @ \o <<<<"Converting PEM to DER format...">>,
                                       <<"Warning: Could not convert certificate format">>>>]

remote_path == "/sdcard/Download/" \o Join(cert_name) \o ".crt"

PushCmd(sc) == AdbCmd(sc.device_serial, "adb", <<"push", Join(sc.cert_path), remote_path>>)

\* Step 2: p is the fate of `adb push`.
push_step(sc, p) ==
    IF p.kind = "raise"
    THEN Crashed([sc EXCEPT !.cmds = Append(@, PushCmd(sc)),
                            !.printed = Append(@, <<"Pushing certificate to device...">>)],
                 p.stderr)
    ELSE IF p.code # 0
    THEN [Went(sc, "returned", <<<<"Pushing certificate to device...">>>>,
               StepResult(<<PushCmd(sc)>>,
                          <<<<"Error pushing certificate: ">> \o p.stderr>>, FALSE),
               "push")
          EXCEPT !.ret = "False"]
    ELSE Went(sc, "settings", <<<<"Pushing certificate to device...">>>>,
              StepResult(<<PushCmd(sc)>>,
                         <<<<"Certificate pushed to: ", remote_path>>>>, TRUE),
              "push")

\* Step 10: the certificate file is tapped, or the function returns False.
select_step(sc, r) ==
    IF r.ok THEN Went(sc, "name", <<<<"Selecting certificate: ">> \o cert_name \o <<".crt...">>>>,
                      r, "select")
    ELSE [Went(sc, "returned", <<<<"Selecting certificate: ">> \o cert_name \o <<".crt...">>>>,
               StepResult(r.cmds, Append(r.printed, <<"Could not find certificate file">>),
                          FALSE),
               "select")
          EXCEPT !.ret = "False"]

Success == <<"Certificate installed successfully!">>
Incomplete ==
    <<<<"Certificate installation failed or incomplete">>,
      <<"You may need to complete the installation manually.">>,
      <<"The certificate has been pushed to: /sdcard/Download/">>>>

\* main() of cert_installer.py after install_certificate returned: it prints
\* and falls off its end.
cert_exit(sc) ==
    Exit(sc, IF sc.ret = "True" THEN <<Success>> ELSE Incomplete, "0")


\* The arguments and the device of a run of cert_installer.py.
CertArgvs ==
    {<<"cert_installer.py">>,
     <<"cert_installer.py", <<"/tmp/ca", ".crt">>>>,
     <<"cert_installer.py", <<"/tmp/ca", ".pem">>, "emulator-5554">>}

\* The attempt and the text with which the device shows a credential entry
\* and an install entry (<<0, 0>>: never), and the fates of `wm size`.
CredentialFinds == {<<1, 2>>, <<2, 2>>, <<0, 0>>}
InstallFinds == {<<1, 1>>, <<1, 3>>, <<3, 2>>, <<0, 0>>}
SizeOk == POk(<<"Physical size: ">> \o DigitsOf(1080) \o <<"x">> \o DigitsOf(2400) \o <<"\n">>)
Sizes == {SizeOk, PFail}

\* No request is served while a script is followed.
ScriptTurn(prog, pc) == Idle /\ script.prog = prog /\ script.pc = pc

Stepped(sc) ==
    /\ script' = sc
    /\ UNCHANGED <<current_device, adb_path, call, sleeping, installer, files, tools>>

CertMain ==
    /\ ScriptTurn("", "init")
    /\ \E argv \in CertArgvs, exists \in BOOLEAN : Stepped(cert_main(argv, exists))

Convert ==
    /\ ScriptTurn("cert_installer", "convert")
    /\ \E openssl \in {"converted", "failed", "missing"} :
          Stepped(convert_step(script, openssl))

Push ==
    /\ ScriptTurn("cert_installer", "push")
    /\ \E p \in {POk(<<"1 file pushed", "\n">>), PFail, LaunchRaised(RaiseText)} :
          Stepped(push_step(script, p))

\* Step 3: the result of `am start` is ignored.
OpenSettings ==
    /\ ScriptTurn("cert_installer", "settings")
    /\ Stepped(Went(script, "security", <<<<"Opening Settings...">>>>,
                    StepResult(<<AdbCmd(script.device_serial, "adb",
                                        <<"shell", "am", "start", "-a",
                                          "android.settings.SETTINGS">>)>>,
                               <<>>, TRUE),
                    ""))

Security ==
    /\ ScriptTurn("cert_installer", "security")
    /\ \E first \in BOOLEAN, second \in BOOLEAN :
          /\ first => second
          /\ Stepped(Went(script, "credentials", <<<<"Navigating to Security...">>>>,
                          security_step(script.device_serial, first, second), "security"))

Credentials ==
    /\ ScriptTurn("cert_installer", "credentials")
    /\ \E find \in CredentialFinds, size \in Sizes :
          Stepped(Went(script, "install", <<<<"Looking for credential settings...">>>>,
                       TryEntries(script.device_serial, CredentialTexts, find, size,
                                  1, 1, NoStepYet),
                       "credentials"))

InstallEntry ==
    /\ ScriptTurn("cert_installer", "install")
    /\ \E find \in InstallFinds :
          Stepped(Went(script, "ca", <<<<"Selecting certificate installation...">>>>,
                       TryEntries(script.device_serial, InstallTexts, find, SizeOk,
                                  1, 1, NoStepYet),
                       "install"))

CaCertificate ==
    /\ ScriptTurn("cert_installer", "ca")
    /\ \E shown \in BOOLEAN :
          Stepped(Went(script, "anyway", <<<<"Selecting CA certificate...">>>>,
                       TapStep(TapTextOn(script.device_serial, <<"CA certificate">>, shown)),
                       "ca"))

InstallAnyway ==
    /\ ScriptTurn("cert_installer", "anyway")
    /\ \E shown \in BOOLEAN :
          Stepped(Went(script, "downloads", <<>>,
                       install_anyway_step(script.device_serial, shown), ""))

Downloads ==
    /\ ScriptTurn("cert_installer", "downloads")
    /\ \E shown \in BOOLEAN :
          Stepped(Went(script, "select", <<<<"Navigating to certificate file...">>>>,
                       downloads_step(script.device_serial, shown), "downloads"))

SelectFile ==
    /\ ScriptTurn("cert_installer", "select")
    /\ \E shown \in BOOLEAN :
          Stepped(select_step(script,
                              TapStep(TapTextOn(script.device_serial,
                                                cert_name \o <<".crt">>, shown))))

NameAndConfirm ==
    /\ ScriptTurn("cert_installer", "name")
    /\ \E shown \in BOOLEAN :
          Stepped([Went(script, "returned", <<>>,
                        name_and_confirm(script.device_serial, shown), "ok")
                   EXCEPT !.ret = "True"])

CertExit ==
    /\ ScriptTurn("cert_installer", "returned")
    /\ Stepped(cert_exit(script))

----------------------------------------------------------------------------
(* test_functionality.py run from main() *)

\* AndroidEmulatorTester.run_adb: a timeout and any other exception become
\* exit status 1.
t_run_adb(p) ==
    IF p.kind = "exit" THEN [stdout |-> p.stdout, stderr |-> p.stderr, code |-> p.code]
    ELSE [stdout |-> <<>>, stderr |-> p.stderr, code |-> 1]

\* text.split(): the fields between runs of spaces and newlines.
SplitWs(text) ==
    SelectSeq(SplitOn([i \in DOMAIN text |-> IF text[i] = "\n" THEN " " ELSE text[i]],
                      " ", <<>>, <<>>),
              LAMBDA f : f # <<>>)

\* `word in token`
StrContains(token, word) ==
    \E i \in 1..(Len(token) - Len(word) + 1) : SubSeq(token, i, i + Len(word) - 1) = word

\* `"device" in line`
NamesDevice(line) == \E i \in DOMAIN line : StrContains(line[i], "device")

\* The result of a test: "True", "False", or "raised" when an exception
\* leaves it.
Verdict(ok) == IF ok THEN "True" ELSE "False"

\* stdout.strip().split()[4] raises IndexError on fewer than five fields.
test_adb_available(p) ==
    IF t_run_adb(p).code # 0 THEN "False"
    ELSE IF Len(SplitWs(Strip(t_run_adb(p).stdout))) < 5 THEN "raised"
    ELSE "True"

\* The serials test_list_devices collects.
DevicesListed(stdout) ==
    [i \in DOMAIN SelectSeq(Tail(Lines(Strip(stdout))),
                            LAMBDA l : Strip(l) # <<>> /\ NamesDevice(l))
       |-> Fields(SelectSeq(Tail(Lines(Strip(stdout))),
                            LAMBDA l : Strip(l) # <<>> /\ NamesDevice(l))[i])[1][1]]

\* test_list_devices: the verdict and the serial selected (None if none).
test_list_devices(p) ==
    IF t_run_adb(p).code # 0 THEN [verdict |-> "False", device_serial |-> None]
    ELSE IF DevicesListed(t_run_adb(p).stdout) # <<>>
    THEN [verdict |-> "True", device_serial |-> DevicesListed(t_run_adb(p).stdout)[1]]
    ELSE [verdict |-> "False", device_serial |-> None]

\* test_device_info reports what it can read and always passes.
test_device_info(e) == "True"

\* test_screenshot and test_ui_hierarchy: capture or dump, pull, and the
\* local file; ET.parse raises on a file that is no XML.
test_screenshot(e) ==
    Verdict(t_run_adb(e.p1).code = 0 /\ t_run_adb(e.p2).code = 0 /\ e.exists)

test_ui_hierarchy(e) ==
    IF t_run_adb(e.p1).code # 0 \/ t_run_adb(e.p2).code # 0 \/ ~e.exists THEN "False"
    ELSE IF ~ParseXml(e.text).ok THEN "raised"
    ELSE "True"

\* test_tap: the screen size is read and its centre is tapped.
test_tap(e) ==
    Verdict(/\ t_run_adb(e.p1).code = 0
            /\ SizeSearch(t_run_adb(e.p1).stdout) # <<>>
            /\ t_run_adb(e.p2).code = 0)

test_key_press(e) == Verdict(t_run_adb(e.p1).code = 0)

test_app_list(e) == Verdict(t_run_adb(e.p1).code = 0)

test_shell_command(e) ==
    Verdict(t_run_adb(e.p1).code = 0
            /\ ContainsSeq(t_run_adb(e.p1).stdout, <<"Hello from Android">>))

\* test_file_operations: push, pull, and the pulled file read back; open()
\* raises when the file is not there.
test_file_operations(e) ==
    IF t_run_adb(e.p1).code # 0 \/ t_run_adb(e.p2).code # 0 THEN "False"
    ELSE IF ~e.exists THEN "raised"
    ELSE Verdict(e.text = <<"Test content from MCP server">>)

\* The tests of run_all_tests, in order.
TestNames ==
    <<"ADB Available", "List Devices", "Device Info", "Screenshot", "UI Hierarchy",
      "Tap Input", "Key Press", "App Listing", "Shell Commands", "File Operations">>

\* The verdict of a test after the first two.
DeviceTest(name, e) ==
    CASE name = "Device Info" -> test_device_info(e)
      [] name = "Screenshot" -> test_screenshot(e)
      [] name = "UI Hierarchy" -> test_ui_hierarchy(e)
      [] name = "Tap Input" -> test_tap(e)
      [] name = "Key Press" -> test_key_press(e)
      [] name = "App Listing" -> test_app_list(e)
      [] name = "Shell Commands" -> test_shell_command(e)
      [] name = "File Operations" -> test_file_operations(e)

\* The adb commands a test runs: a test stops at the first command it
\* needs that failed.
TestCalls(name, e) ==
    IF name = "Device Info" THEN 4
    ELSE IF name \in {"Screenshot", "UI Hierarchy", "File Operations"}
    THEN IF t_run_adb(e.p1).code # 0 THEN 1 ELSE 2
    ELSE IF name = "Tap Input"
    THEN IF t_run_adb(e.p1).code = 0 /\ SizeSearch(t_run_adb(e.p1).stdout) # <<>>
         THEN 2 ELSE 1
    ELSE 1

\* A verdict that leaves an exception in the results.
RecordedRaised(verdict) == verdict

\* An exception that leaves a test is caught and counts as a failure.
Recorded(verdict) == IF verdict = "raised" THEN "False" ELSE verdict

\* results[name] after test_func() gave the verdict, with the number of adb
\* commands the test ran and whether an exception left it.
Result(name, verdict, e) ==
    [name |-> name, result |-> Recorded(verdict), calls |-> TestCalls(name, e),
     raised |-> verdict = "raised"]

\* One round of the loop of run_all_tests: the next test is skipped when it
\* needs a device and none was selected, else it is run.
run_test(sc, e) ==
    LET name == TestNames[Len(sc.results) + 1]
    IN IF name = "ADB Available"
       THEN [sc EXCEPT !.results = Append(@, Result(name, test_adb_available(e.p1), e))]
       ELSE IF name = "List Devices"
       THEN [sc EXCEPT !.results =
                    Append(@, Result(name, test_list_devices(e.p1).verdict, e)),
                       !.device_serial = test_list_devices(e.p1).device_serial]
       ELSE IF ~Truthy(sc.device_serial)
       THEN [sc EXCEPT !.results =
                    Append(@, [name |-> name, result |-> "skipped", calls |-> 0,
                               raised |-> FALSE])]
       ELSE [sc EXCEPT !.results = Append(@, Result(name, DeviceTest(name, e), e))]

Failed(results) == Len(SelectSeq(results, LAMBDA r : r.result = "False"))

\* The end of run_all_tests and of main(): sys.exit(0 if success else 1).
harness_exit(sc) ==
    Exit([sc EXCEPT !.ret = Verdict(Failed(sc.results) = 0)], <<>>,
         IF Failed(sc.results) = 0 THEN "0" ELSE "1")

\* What the outside world does during one test.
TestEnv(p1, p2, exists, text) == [p1 |-> p1, p2 |-> p2, exists |-> exists, text |-> text]

VersionOutput ==
    <<"Android", " ", "Debug", " ", "Bridge", " ", "version", " ", "1.0.41", "\n">>

TestEnvs(name) ==
    IF name = "ADB Available"
    THEN {TestEnv(p, PFail, TRUE, <<>>) :
             p \in {POk(VersionOutput), POk(<<"adb", " ", "1.0.41">>), PFail,
                    LaunchRaised(RaiseText)}}
    ELSE IF name = "List Devices"
    THEN {TestEnv(p, PFail, TRUE, <<>>) :
             p \in {POk(DevicesOutput(a)) : a \in Attached} \cup {PFail, TimedOut}}
    ELSE IF name = "Tap Input"
    THEN {TestEnv(p1, p2, TRUE, <<>>) :
             p1 \in {SizeOk, POk(<<"\n">>), PFail}, p2 \in {POk(<<>>), PFail}}
    ELSE IF name = "Shell Commands"
    THEN {TestEnv(p, PFail, TRUE, <<>>) :
             p \in {POk(<<"Hello from Android", "\n">>), POk(<<>>), PFail}}
    ELSE IF name = "UI Hierarchy"
    THEN {TestEnv(POk(<<>>), p2, TRUE, text) :
             p2 \in {POk(<<>>), PFail}, text \in {XmlDump(<<OkButton>>), <<>>}}
    ELSE IF name = "File Operations"
    THEN {TestEnv(POk(<<>>), p2, exists, text) :
             p2 \in {POk(<<>>), PFail}, exists \in BOOLEAN,
             text \in {<<"Test content from MCP server">>, <<>>}}
    ELSE {TestEnv(p, POk(<<>>), exists, <<>>) : p \in {POk(<<>>), PFail}, exists \in BOOLEAN}

HarnessMain ==
    /\ ScriptTurn("", "init")
    /\ Stepped([NoScript EXCEPT !.prog = "test_functionality", !.pc = "test"])

RunTest ==
    /\ ScriptTurn("test_functionality", "test")
    /\ Len(script.results) < Len(TestNames)
    /\ \E e \in TestEnvs(TestNames[Len(script.results) + 1]) : Stepped(run_test(script, e))

HarnessExit ==
    /\ ScriptTurn("test_functionality", "test")
    /\ Len(script.results) = Len(TestNames)
    /\ Stepped(harness_exit(script))

ScriptNext ==
    \/ CertMain
    \/ Convert
    \/ Push
    \/ OpenSettings
    \/ Security
    \/ Credentials
    \/ InstallEntry
    \/ CaCertificate
    \/ InstallAnyway
    \/ Downloads
    \/ SelectFile
    \/ NameAndConfirm
    \/ CertExit
    \/ HarnessMain
    \/ RunTest
    \/ HarnessExit

ScriptSpec == Init /\ [][ScriptNext]_vars

\* cert_installer.py alone.
CertNext ==
    \/ CertMain
    \/ Convert
    \/ Push
    \/ OpenSettings
    \/ Security
    \/ Credentials
    \/ InstallEntry
    \/ CaCertificate
    \/ InstallAnyway
    \/ Downloads
    \/ SelectFile
    \/ NameAndConfirm
    \/ CertExit

\* The installer has a next statement to run.
CertRunning == Idle /\ script.prog \in {"", "cert_installer"} /\ script.pc # "exited"

\* The installer moves on to another statement, for instance to its exit.
\* Every step of CertNext is such a step and one is possible exactly when
\* the installer is running.
CertProceeds ==
    /\ CertRunning
    /\ \/ Stepped([script EXCEPT !.pc = "exited"])
       \/ script'.pc # script.pc

\* The installer is a sequential program: it runs its next statement as
\* soon as the adb call it waits for returns.
CertLive == Init /\ [][CertNext]_vars /\ WF_vars(CertProceeds)

----------------------------------------------------------------------------
(* Properties *)

ToolNameSet == {ToolNames[i] : i \in DOMAIN ToolNames}

\* The tools that act on the selected device.
DeviceScoped == ToolNameSet \ {"list_devices", "select_device"}

Served == call.phase # "init"

\* The first three words of a command line that names the device s.
Targets(cmd, s) == Len(cmd) > 3 /\ SubSeq(cmd, 1, 3) = <<adb_path, "-s", s>>

(* C1: a device-scoped tool called while no device is selected (the serial *)
(* is None or empty) runs no external process, whatever its arguments.     *)
C1_NoDeviceNoProcess ==
    (Served /\ call.name \in DeviceScoped /\ ~Truthy(call.dev0)) => call.runs = <<>>

\* install_app was asked for after the empty serial was selected.
C1_Witness ==
    /\ call.name = "install_app" /\ Has(call.arguments, "apk_path")
    /\ call.dev0 = "" /\ call.runs = <<>> /\ call.phase = "returned"

(* C2: a device-scoped tool called while no device is selected answers     *)
(* with the "No device selected." message, find_element and tap_element    *)
(* included.  The requests considered carry their required arguments.      *)
C2_NoDeviceMessage ==
    (Served /\ call.name \in DeviceScoped /\ ~Truthy(call.dev0) /\ call.caught = <<>>)
        => /\ Len(call.resp) = 1
           /\ call.resp[1].type = "text"
           /\ Head(call.resp[1].text) = "No device selected."

(* C3: select_device(serial) stores the serial without running a process   *)
(* and without validating it; the serial changes in no other call, and     *)
(* while a non-empty serial is held every adb command line of a call       *)
(* starts with adb -s <serial>.                                            *)
C3_SelectThenTarget ==
    /\ []((call.name = "select_device" /\ Has(call.arguments, "serial"))
            => /\ call.runs = <<>> /\ call.caught = <<>>
               /\ current_device = call.arguments.serial)
    /\ [][call'.name # "select_device" => current_device' = current_device]_vars
    /\ []((Served /\ Truthy(current_device) /\ call.name # "select_device")
            => \A i \in DOMAIN call.runs : Targets(call.runs[i].cmd, current_device))

\* A second selection replaced the first and the next command names it.
C3_Witness ==
    /\ call.name = "get_device_info" /\ Len(call.runs) = 5
    /\ current_device = "emulator-5556"
    /\ call.runs[5].cmd = <<adb_path, "-s", "emulator-5556", "shell", "wm", "size">>

(* C4: no exception leaves call_tool; one raised inside a handler or by a  *)
(* missing argument becomes a single text response "Error: <message>", and *)
(* the server goes on to send it and take the next request.                *)
C4_NoExceptionEscapes ==
    /\ call.exc = <<>>
    /\ call.caught # <<>>
         => /\ call.resp = <<TextContent(<<"Error", ": ">> \o call.caught[1])>>
            /\ call.phase = "returned"
            /\ ENABLED SendResponse

\* select_device was called without its serial argument.
C4_Witness ==
    /\ call.name = "select_device" /\ ~Has(call.arguments, "serial")
    /\ call.resp = <<TextContent(<<"Error", ": ", "'serial'">>)>>

(* C5: a tool name outside the catalog is answered with the text           *)
(* "Unknown tool: <name>"; no process is run and the selected serial is    *)
(* left as it was.                                                         *)
C5_UnknownTool ==
    (Served /\ call.name \notin ToolNameSet)
        => /\ call.resp = <<TextContent(<<"Unknown tool: ", call.name>>)>>
           /\ call.runs = <<>>
           /\ call.caught = <<>>
           /\ call.dev = call.dev0 /\ current_device = call.dev0

\* An unknown tool was asked for while a device was selected.
C5_Witness ==
    /\ call.name = "reboot" /\ call.dev0 = "emulator-5554"
    /\ current_device = "emulator-5554" /\ call.phase = "returned"

(* C6: _run_adb never raises: when the process exceeds the timeout or      *)
(* cannot be launched, the caller gets an empty stdout, the message as     *)
(* stderr and a non-zero code, and the call ends without an exception.     *)
C6_RunAdbNeverRaises ==
    \A i \in DOMAIN call.runs :
        call.env.procs[i].kind # "exit"
            => /\ call.runs[i].stdout = <<>>
               /\ call.runs[i].code # 0
               /\ call.env.procs[i].kind = "timeout"
                    => /\ Len(call.runs[i].stderr) = 3
                       /\ call.runs[i].stderr[1] = "Command timed out after "
                       /\ call.runs[i].stderr[3] = "s"
               /\ call.env.procs[i].kind = "raise"
                    => call.runs[i].stderr = call.env.procs[i].stderr
               /\ call.caught = <<>> /\ call.exc = <<>>

\* The installation of an app ran into its 120 s timeout.
C6_Witness ==
    /\ call.name = "install_app" /\ Len(call.runs) = 1
    /\ call.env.procs[1].kind = "timeout"
    /\ call.runs[1].stderr = <<"Command timed out after ", "120", "s">>
    /\ call.runs[1].code = 1

\* The screen whose dump the call read back after a dump and a pull that
\* both exited 0, if there is one.
SnapshotsRead ==
    IF /\ Served /\ Len(call.env.procs) >= 2
       /\ \A i \in 1..2 : call.env.procs[i].kind = "exit" /\ call.env.procs[i].code = 0
    THEN {call.env.screen[i] : i \in DOMAIN call.env.screen}
    ELSE {}

FourCriteria == {CriteriaKeys[i] : i \in DOMAIN CriteriaKeys}

\* The nodes of screen s whose attributes equal every supplied criterion.
ExactMatches(s, criteria) ==
    SelectSeq(s, LAMBDA n :
        \A k \in DOMAIN criteria \cap FourCriteria :
            Has(n, CriterionAttr(k)) /\ n[CriterionAttr(k)] = criteria[k])

\* The response that lists the nodes m, or says that there are none.
MatchReport(m) ==
    <<TextContent(IF m = <<>> THEN <<"No matching elements", " found.">>
                  ELSE <<"Found ", IntStr(Len(m)), " matching element(s)", ":\n">>
                       \o JsonDumps([i \in DOMAIN m |-> MatchDict(m[i])]))>>

(* C7: for every snapshot read and every non-empty set of criteria among   *)
(* text, resource_id, class_name and content_desc, find_element returns    *)
(* exactly the nodes whose attributes equal every supplied criterion.      *)
C7_ExactMatches ==
    (call.name = "find_element" /\ Truthy(call.dev0)
     /\ DOMAIN call.arguments \cap FourCriteria # {})
        => \A s \in SnapshotsRead :
              call.resp = MatchReport(ExactMatches(s, call.arguments))

\* The last command line of a sequence of process runs.
LastCmd(runs) == runs[Len(runs)].cmd

\* The runs end with `input tap x y`.
TapsAt(runs, x, y) ==
    /\ runs # <<>>
    /\ Len(LastCmd(runs)) >= 6
    /\ SubSeq(LastCmd(runs), Len(LastCmd(runs)) - 4, Len(LastCmd(runs)))
          = <<"shell", "input", "tap", IntStr(x), IntStr(y)>>

Tapped(runs) ==
    runs # <<>> /\ Len(LastCmd(runs)) >= 6 /\ LastCmd(runs)[Len(LastCmd(runs)) - 2] = "tap"

\* The screens the script's lookup dump showed.
LookupScreens ==
    IF installer.phase = "done"
    THEN {s \in InstallerScreens : installer.env.final = POk(TtyDump(s))}
    ELSE {}

\* The nodes of s with the given text and bounds of the bracket form.
TextNodes(s, text) ==
    SelectSeq(s, LAMBDA n :
        /\ Has(n, "text") /\ n["text"] = text
        /\ Has(n, "bounds") /\ \E r \in Rects : n["bounds"] = RectBounds(r))

(* C8: for a node with bounds [x1,y1][x2,y2] the point tapped by           *)
(* tap_element (server) and by the script's find_element_bounds/tap is the *)
(* midpoint ((x1+x2) div 2, (y1+y2) div 2), rounded down, and it is the    *)
(* point passed to `input tap`; [10,20][110,120] gives (60, 70).           *)
C8_TapMidpoint ==
    /\ (call.name = "tap_element" /\ Len(call.runs) = 3)
          => \A s \in SnapshotsRead : \A r \in Rects :
                (/\ ExactMatches(s, call.arguments) # <<>>
                 /\ Get(ExactMatches(s, call.arguments)[1], "bounds") = <<RectBounds(r)>>)
                    => /\ TapsAt(call.runs, (r[1] + r[3]) \div 2, (r[2] + r[4]) \div 2)
                       /\ r = <<10, 20, 110, 120>> => TapsAt(call.runs, 60, 70)
    /\ (installer.op = "tap_text" /\ Tapped(installer.runs))
          => \A s \in LookupScreens : \A r \in Rects :
                (/\ TextNodes(s, installer.text) # <<>>
                 /\ TextNodes(s, installer.text)[1]["bounds"] = RectBounds(r))
                    => /\ TapsAt(installer.runs, (r[1] + r[3]) \div 2, (r[2] + r[4]) \div 2)
                       /\ r = <<10, 20, 110, 120>> => TapsAt(installer.runs, 60, 70)

\* tap_element tapped a node whose midpoint has halves to round down.
C8_Witness ==
    /\ call.name = "tap_element" /\ Len(call.runs) = 3
    /\ call.arguments = [text |-> <<"ok">>]
    /\ \E s \in SnapshotsRead : Get(ExactMatches(s, call.arguments)[1], "bounds")
                                    = <<RectBounds(<<1, 2, 4, 7>>)>>
    /\ TapsAt(call.runs, 2, 4)

\* No node of the snapshot s satisfies the criteria, or none is supplied.
NoMatch(s, criteria) ==
    \/ DOMAIN criteria \cap FourCriteria = {}
    \/ ExactMatches(s, criteria) = <<>>

(* C9: when no node of a snapshot read satisfies the criteria, or no       *)
(* criterion is supplied, find_element reports "No matching elements       *)
(* found."; tap_element returns the same report and taps nothing.          *)
C9_EmptyMatchSet ==
    (call.name \in {"find_element", "tap_element"} /\ Truthy(call.dev0))
        => \A s \in SnapshotsRead :
              NoMatch(s, call.arguments)
                 => /\ call.resp = MatchReport(<<>>)
                    /\ Len(call.runs) = 2

\* The key codes the specification lists.
ListedKeyCodes ==
    [back |-> "4", home |-> "3", recent |-> "187", menu |-> "82", power |-> "26",
     volume_up |-> "24", volume_down |-> "25"]

(* C10: with a device selected, press_key of a listed key runs exactly one *)
(* `input keyevent <code>` with the listed code; any other key is answered *)
(* with "Unknown key" and no process is run.                               *)
C10_PressKey ==
    (call.name = "press_key" /\ Truthy(call.dev0) /\ Has(call.arguments, "key"))
        => IF call.arguments.key \in DOMAIN ListedKeyCodes
           THEN /\ Len(call.runs) = 1
                /\ call.runs[1].cmd =
                      <<adb_path, "-s", call.dev0, "shell", "input", "keyevent",
                        ListedKeyCodes[call.arguments.key]>>
           ELSE /\ call.runs = <<>>
                /\ call.resp = <<TextContent(<<"Unknown key: ", call.arguments.key>>)>>

\* The recent-apps key was pressed.
C10_Witness ==
    /\ call.name = "press_key" /\ call.arguments = [key |-> "recent"]
    /\ Len(call.runs) = 1 /\ call.runs[1].cmd[7] = "187" /\ call.phase = "returned"

\* The device lines among the lines adb printed: those of two fields or more.
DeviceLines(lines) == SelectSeq(lines, LAMBDA l : Len(l) >= 2)

NoDevicesFound ==
    <<"No devices found. Make sure an emulator is running or a device is connected.">>

(* C11: when its adb call succeeded, list_devices answers with the exact   *)
(* "No devices found..." message if no line after the header has two       *)
(* fields, and otherwise with one line per device line that holds its      *)
(* serial and its state; and list_devices is the only tool that runs adb   *)
(* while no device is selected.                                            *)
C11_ListDevices ==
    /\ (call.name = "list_devices" /\ call.env.procs[1].kind = "exit"
        /\ call.env.procs[1].code = 0)
          => /\ Len(call.resp) = 1
             /\ IF DeviceLines(call.env.attached) = <<>>
                THEN call.resp[1].text = NoDevicesFound
                ELSE /\ Len(Lines(call.resp[1].text)) = Len(DeviceLines(call.env.attached)) + 1
                     /\ \A i \in DOMAIN DeviceLines(call.env.attached) :
                           /\ Contains(Lines(call.resp[1].text)[i + 1],
                                       DeviceLines(call.env.attached)[i][1])
                           /\ Contains(Lines(call.resp[1].text)[i + 1],
                                       DeviceLines(call.env.attached)[i][2])
    /\ (Served /\ ~Truthy(call.dev0) /\ call.runs # <<>>) => call.name = "list_devices"
    /\ (call.name = "list_devices" /\ ~Truthy(call.dev0))
          => Len(call.runs) = 1 /\ call.runs[1].cmd = <<adb_path, "devices", "-l">>

\* Before any selection, a line of one field and a device were listed.
C11_Witness ==
    /\ call.name = "list_devices" /\ call.dev0 = None
    /\ call.env.attached = <<<<"orphan">>, <<"emulator-5554", "device">>>>
    /\ call.resp[1].text = <<"Available devices:", "\n", "Serial: ", "emulator-5554",
                              ", State: ", "device", ", Info: ">>

\* The tools that send a local file, the argument that names it, and the
\* text that reports it missing.
LocalFileTools ==
    [install_app |-> [arg |-> "apk_path", report |-> "APK file not found: "],
     push_file |-> [arg |-> "local_path", report |-> "Local file not found: "],
     install_certificate |-> [arg |-> "cert_path", report |-> "Certificate file not found: "]]

(* C12: with a device selected, install_app, push_file and                 *)
(* install_certificate called with a local path that does not exist answer *)
(* with a "not found" text that names the path, and run no process.        *)
C12_MissingLocalFile ==
    (/\ call.name \in DOMAIN LocalFileTools /\ Truthy(call.dev0)
     /\ call.caught = <<>> /\ ~call.env.exists)
        => /\ call.runs = <<>>
           /\ call.resp = <<TextContent(<<LocalFileTools[call.name].report,
                                           call.arguments[LocalFileTools[call.name].arg]>>)>>
           /\ call.phase = "returned"

\* An APK that is not there was to be installed on a selected device.
C12_Witness ==
    /\ call.name = "install_app" /\ call.dev0 = "emulator-5554" /\ ~call.env.exists
    /\ call.resp = <<TextContent(<<"APK file not found: ", "/tmp/app.apk">>)>>

(* C13: whenever an adb run made for a tool exits non-zero or times out,    *)
(* the response of that tool carries the stderr text of the run (or the    *)
(* timeout message) verbatim; this includes the property queries of        *)
(* get_device_info and the dump and pull reached through find_element and  *)
(* tap_element.                                                            *)
C13_FailureSurfaced ==
    \A i \in DOMAIN call.runs :
        call.runs[i].code # 0
            => \E j \in DOMAIN call.resp :
                  /\ call.resp[j].type = "text"
                  /\ ContainsSeq(call.resp[j].text, call.runs[i].stderr)

RECURSIVE Skeleton(_, _)
\* The text chars with every maximal run of digits replaced by "N"; inrun
\* says that the character before was a digit.
Skeleton(chars, inrun) ==
    IF chars = <<>> THEN <<>>
    ELSE IF IsDigit(Head(chars))
         THEN (IF inrun THEN <<>> ELSE <<"N">>) \o Skeleton(Tail(chars), TRUE)
    ELSE <<Head(chars)>> \o Skeleton(Tail(chars), FALSE)

\* The bounds text is of the bracket form [x1,y1][x2,y2].
BracketForm(bounds) ==
    Skeleton(bounds, FALSE) = <<"[", "N", ",", "N", "]", "[", "N", ",", "N", "]">>

\* Some process run of the call was an `input tap`.
IssuedTap ==
    \E i \in DOMAIN call.runs :
        \E k \in 1..(Len(call.runs[i].cmd) - 1) :
            call.runs[i].cmd[k] = "input" /\ call.runs[i].cmd[k + 1] = "tap"

\* The call read back a file that is not the dump of a screen: an empty
\* file or a dump cut short.
MalformedDumpRead ==
    /\ Served /\ Len(call.runs) = 2
    /\ \A i \in 1..2 : call.runs[i].code = 0
    /\ call.env.file.readable /\ call.env.screen = <<>>

\* The call answered with one text and raised nothing.
DescriptiveText ==
    /\ call.caught = <<>> /\ Len(call.resp) = 1
    /\ call.resp[1].type = "text" /\ call.resp[1].text # <<>>

(* C15: parse failures are reported as text and never act: find_element on *)
(* a malformed or empty UI dump returns an "Error parsing UI hierarchy"    *)
(* text, and tap_element on a first match whose bounds attribute is        *)
(* missing or not of the form [x1,y1][x2,y2] returns a descriptive text    *)
(* and issues no tap command.                                              *)
C15_ParseFailures ==
    /\ (call.name = "find_element" /\ Truthy(call.dev0) /\ MalformedDumpRead)
          => /\ DescriptiveText
             /\ SubSeq(call.resp[1].text, 1, 2) = <<"Error", " parsing UI hierarchy: ">>
    /\ (call.name = "tap_element" /\ Truthy(call.dev0))
          => \A s \in SnapshotsRead :
                (/\ DOMAIN call.arguments \cap FourCriteria # {}
                 /\ ExactMatches(s, call.arguments) # <<>>
                 /\ \/ Get(ExactMatches(s, call.arguments)[1], "bounds") = <<>>
                    \/ ~BracketForm(ExactMatches(s, call.arguments)[1]["bounds"]))
                    => DescriptiveText /\ ~IssuedTap

\* The characters of a command-line argument.
CharsOf(arg) == [i \in 1..Len(arg) |-> SubSeq(arg, i, i)]

RECURSIVE BackslashesBefore(_, _)
\* The number of backslashes that end right before position i of chars.
BackslashesBefore(chars, i) ==
    IF i = 1 \/ chars[i - 1] # "\\" THEN 0 ELSE 1 + BackslashesBefore(chars, i - 1)

Quotes == {"'", "\""}

\* The argument holds no space, and every quote in it follows an odd
\* number of backslashes.
SurvivesShell(chars) ==
    \A i \in DOMAIN chars :
        /\ chars[i] # " "
        /\ chars[i] \in Quotes => BackslashesBefore(chars, i) % 2 = 1

(* C16: input_text escapes every space and every quote, single and double, *)
(* of its text before passing it to `input text`, so the argument handed   *)
(* to adb holds no unescaped space and no unescaped quote; the response    *)
(* echoes the original text.                                               *)
C16_InputTextEscaped ==
    (call.name = "input_text" /\ Len(call.runs) = 1)
        => /\ SurvivesShell(CharsOf(LastCmd(call.runs)[Len(LastCmd(call.runs))]))
           /\ call.runs[1].code = 0
                 => call.resp = <<TextContent(<<"Entered text: ">> \o call.arguments.text)>>

\* The settling delay of each UI action, in milliseconds.
SettlingDelay ==
    [tap_coordinates |-> 500, swipe |-> 500, press_key |-> 300, launch_app |-> 2000]

\* The call is a UI action that ran its adb command.
UiActionRan(c) == c.name \in DOMAIN SettlingDelay /\ Len(c.runs) = 1

(* C17: for tap_coordinates, swipe, press_key and launch_app a successful  *)
(* adb call is followed by the operation's fixed settling delay before the *)
(* response is returned (process call, then delay, then response); when    *)
(* the adb call fails the failure response is returned with no delay.      *)
C17_SettlingDelay ==
    /\ [](UiActionRan(call)
            => IF call.runs[1].code = 0
               THEN /\ call.delay = SettlingDelay[call.name]
                    /\ call.phase = "sleeping" <=> call \in sleeping
               ELSE call.delay = 0 /\ call.phase = "returned")
    /\ [][(UiActionRan(call') /\ call'.runs[1].code = 0 /\ call'.phase = "returned")
             => /\ call.phase = "sleeping"
                /\ call' = [call EXCEPT !.phase = "returned"]]_vars

\* launch_app has returned its response after its delay of two seconds.
C17_Witness ==
    /\ call.name = "launch_app" /\ Len(call.runs) = 1 /\ call.runs[1].code = 0
    /\ call.delay = 2000 /\ call.phase = "returned" /\ sleeping = {}
    /\ call.resp = <<TextContent(<<"Launched app: ", "com.example.app">>)>>

\* The call is a pull_file request answered with the success text.
PullReported(c) ==
    /\ c.name = "pull_file" /\ c.caught = <<>> /\ Len(c.resp) = 1
    /\ c.resp[1].text[1] = "File pulled successfully:\nFrom: "

(* C18: with a device selected, pushing a local file to a device path and  *)
(* then pulling that device path to a new local path, both calls           *)
(* succeeding and no other write to the device path in between, leaves the *)
(* new local file with the content of the original file.                   *)
C18_RoundTrip ==
    (PullReported(call) /\ Truthy(call.dev0))
        => \A q \in files.pushed :
              (q.dev = call.dev0 /\ q.remote = call.arguments.remote_path)
                 => /\ Has(files.local, call.arguments.local_path)
                    /\ files.local[call.arguments.local_path] = q.content

\* The test file was pushed over older content and pulled back.
C18_Witness ==
    /\ PullReported(call) /\ call.dev0 = "emulator-5554"
    /\ [dev |-> "emulator-5554", remote |-> RemoteFile,
        content |-> "Test content from MCP server"] \in files.pushed
    /\ Has(files.local, PulledFile)
    /\ files.local[PulledFile] = "Test content from MCP server"
    /\ files.local[TestFile] = files.local[PulledFile]

\* Some test of the harness failed.
SomeTestFailed == \E i \in DOMAIN script.results : script.results[i].result = "False"

(* C19: each standalone script exits with status 0 exactly when its run    *)
(* succeeded overall and with status 1 on failure: the installer exits 1   *)
(* when the certificate file is missing and when install_certificate       *)
(* returns False, the harness exits 1 when no device is found or when any  *)
(* test fails.                                                             *)
C19_ExitStatus ==
    script.pc = "exited"
        => /\ script.exit \in {"0", "1"}
           /\ script.prog = "cert_installer"
                 => (script.exit = "0" <=> script.ret = "True")
           /\ script.prog = "test_functionality"
                 => /\ script.exit = "0" <=> ~SomeTestFailed
                    /\ ~Truthy(script.device_serial) => script.exit = "1"

\* The command line is a tap or a text input.
TapOrText(cmd) ==
    \E k \in 1..(Len(cmd) - 1) : cmd[k] = "input" /\ cmd[k + 1] \in {"tap", "text"}

(* C20: in install_certificate the failure of any required step (push,     *)
(* Security or its fallback, a credential-settings entry, an install       *)
(* entry, "CA certificate", Downloads, the certificate file, OK) aborts    *)
(* the sequence: no later tap or text input is issued, and the function    *)
(* returns False so that the manual-completion message is printed.         *)
C20_AbortOnFailure ==
    (script.prog = "cert_installer" /\ script.failed # <<>>)
        => /\ \A i \in (script.failed[1].at + 1)..Len(script.cmds) :
                 ~TapOrText(script.cmds[i])
           /\ script.pc \in {"returned", "exited"} => script.ret = "False"
           /\ script.pc = "exited"
                 => \A i \in DOMAIN Incomplete : \E j \in DOMAIN script.printed :
                       script.printed[j] = Incomplete[i]

\* What a command line of the installer does.
CmdKind(cmd) ==
    IF \E k \in DOMAIN cmd : cmd[k] = "uiautomator" THEN "dump"
    ELSE IF \E k \in DOMAIN cmd : cmd[k] = "tap" THEN "tap"
    ELSE IF \E k \in DOMAIN cmd : cmd[k] = "swipe" THEN "swipe"
    ELSE IF \E k \in DOMAIN cmd : cmd[k] = "wm" THEN "size"
    ELSE "other"

Kinds(cmds) == [i \in DOMAIN cmds |-> CmdKind(cmds[i])]

\* The commands the step from script to script' ran.
StepCmds == SubSeq(script'.cmds, Len(script.cmds) + 1, Len(script'.cmds))

Dumps(n) == [i \in 1..n |-> "dump"]

RECURSIVE LoopTrace(_, _, _)
\* k is what a search loop over n candidate texts may run from iteration it
\* on: after three iterations nothing; else either some candidates that are
\* not found (one dump each) and one that is found and tapped (two dumps and
\* the tap), with nothing after the tap, or all n candidates not found and
\* one scroll (the size query and at most one swipe), then the next
\* iteration.
LoopTrace(k, n, it) ==
    IF it > 3 THEN k = <<>>
    ELSE \/ \E j \in 0..(n - 1) : k = Dumps(j) \o <<"dump", "dump", "tap">>
         \/ /\ Len(k) > n /\ SubSeq(k, 1, n) = Dumps(n) /\ k[n + 1] = "size"
            /\ LoopTrace(IF Len(k) >= n + 2 /\ k[n + 2] = "swipe"
                         THEN SubSeq(k, n + 3, Len(k)) ELSE SubSeq(k, n + 2, Len(k)),
                         n, it + 1)

Scrolls(k) == Len(SelectSeq(k, LAMBDA c : c = "size"))

(* C21: each of the two search loops of install_certificate runs at most 3 *)
(* iterations, leaves the loop at the first candidate whose tap succeeds   *)
(* without trying later candidates or scrolling, and scrolls down exactly  *)
(* once per iteration in which every candidate failed, so at most 3 times; *)
(* install_certificate terminates provided every adb call returns.         *)
C21_SearchLoops ==
    /\ [][/\ (script.pc = "credentials" /\ script'.pc = "install")
                => /\ LoopTrace(Kinds(StepCmds), Len(CredentialTexts), 1)
                   /\ Scrolls(Kinds(StepCmds)) <= 3
          /\ (script.pc = "install" /\ script'.pc = "ca")
                => /\ LoopTrace(Kinds(StepCmds), Len(InstallTexts), 1)
                   /\ Scrolls(Kinds(StepCmds)) <= 3]_vars
    /\ (script.prog = "cert_installer") ~> (script.pc = "exited")

\* The credential loop failed three times with three scrolls, and the
\* install loop left at the second candidate of its third iteration after
\* two scrolls.
C21_Witness ==
    /\ script.prog = "cert_installer" /\ script.pc = "ca"
    /\ script.failed # <<>> /\ script.failed[1].step = "credentials"
    /\ Scrolls(Kinds(script.cmds)) = 5
    /\ Len(SelectSeq(Kinds(script.cmds), LAMBDA c : c = "swipe")) = 5
    /\ CmdKind(script.cmds[Len(script.cmds)]) = "tap"

\* The text shows in the i-th dump of the wait.
ShownAt(i) ==
    /\ installer.env.polls[i].kind # "raise"
    /\ ContainsSeq(installer.env.polls[i].stdout, installer.text)

\* The dumps the wait of tap_text took: up to the first that shows the text.
Polled ==
    IF \E i \in DOMAIN installer.env.polls : ShownAt(i)
    THEN CHOOSE i \in DOMAIN installer.env.polls :
            ShownAt(i) /\ \A h \in 1..(i - 1) : ~ShownAt(h)
    ELSE Len(installer.env.polls)

NotFoundLine == <<"Could not find element with text: ">> \o installer.text

\* tap_text tapped the midpoint of a node whose text equals the text.
TappedTextNode ==
    /\ Tapped(installer.runs)
    /\ \E s \in LookupScreens : \E i \in DOMAIN TextNodes(s, installer.text) : \E r \in Rects :
          /\ TextNodes(s, installer.text)[i]["bounds"] = RectBounds(r)
          /\ TapsAt(installer.runs, (r[1] + r[3]) \div 2, (r[2] + r[4]) \div 2)

\* tap_text polled, and answered what the polls call for, leaving aside
\* whether every False is reported.
TapTextAnswers ==
    (installer.op = "tap_text" /\ installer.phase = "done" /\ installer.exc = <<>>)
        => /\ Len(installer.runs) >= Polled
           /\ \A i \in 1..Polled : installer.runs[i].cmd[Len(installer.runs[i].cmd)] = "/dev/tty"
           /\ (~\E i \in DOMAIN installer.env.polls : ShownAt(i))
                 => /\ installer.ret = "False"
                    /\ installer.printed = <<NotFoundLine>>
                    /\ Len(installer.runs) = Polled
           /\ installer.ret = "True" => TappedTextNode

(* C22: tap_text polls fresh UI dumps until the text appears or the timeout *)
(* elapses; if the text never appears it prints the not-found message,      *)
(* returns False and issues no tap; it returns True only if a tap was issued *)
(* at the midpoint of an element whose text attribute equals the text; and  *)
(* whenever it returns False it has reported the failure to the user.       *)
C22_TapText ==
    /\ TapTextAnswers
    /\ (installer.op = "tap_text" /\ installer.phase = "done" /\ installer.ret = "False")
          => installer.printed # <<>>

Counted(v) == Len(SelectSeq(script.results, LAMBDA r : r.result = v))

(* C23: the harness runs its 10 tests in the fixed order and records one   *)
(* result (pass, fail or skip) per test; when List Devices selected no     *)
(* serial each of the 8 device tests is recorded as skipped and issues no  *)
(* adb call; a test that raises is recorded as failed and the remaining    *)
(* tests still run; passed + failed + skipped = 10 at the end of a run.    *)
C23_Harness ==
    script.prog = "test_functionality"
        => /\ Len(script.results) <= 10
           /\ \A i \in DOMAIN script.results :
                 /\ script.results[i].name
                       = <<"ADB Available", "List Devices", "Device Info", "Screenshot",
                           "UI Hierarchy", "Tap Input", "Key Press", "App Listing",
                           "Shell Commands", "File Operations">>[i]
                 /\ script.results[i].result \in {"True", "False", "skipped"}
                 /\ script.results[i].raised => script.results[i].result = "False"
                 /\ (i >= 3 /\ script.device_serial \in {None, ""})
                       => /\ script.results[i].result = "skipped"
                          /\ script.results[i].calls = 0
                 /\ script.results[i].result # "skipped" => script.results[i].calls >= 1
           /\ script.pc = "exited"
                 => /\ Len(script.results) = 10
                    /\ Counted("True") + Counted("False") + Counted("skipped") = 10
                    /\ script.device_serial \in {None, ""} => Counted("skipped") = 8

\* A run that ended after its first test raised and no device was listed,
\* and so with eight tests skipped.
C23_Witness ==
    /\ script.prog = "test_functionality" /\ script.pc = "exited"
    /\ script.results[1].raised /\ script.results[1].result = "False"
    /\ script.device_serial = None
    /\ Counted("skipped") = 8

\* A run with a device in which a later test raised and the tests after it
\* ran.
C23_RaisedLater ==
    /\ script.prog = "test_functionality" /\ script.pc = "exited"
    /\ script.results[5].raised
    /\ script.results[6].result = "True" /\ script.results[6].calls = 2

\* call_tool sends the name to a handler and not to its else branch; the
\* answer of the else branch needs neither argument nor process.
Routed(name) ==
    Dispatch(None, "adb", name, EmptyDict, Env1(PFail)) # unknown_tool(None, name)

Advertised == {list_tools[i].name : i \in DOMAIN list_tools}

(* C24: list_tools returns the same 22 tool descriptors on every call,     *)
(* whatever requests came before; every name it advertises is routed by   *)
(* call_tool to a handler, never to the "Unknown tool" branch, and every   *)
(* name call_tool routes is advertised.                                    *)
C24_Catalog ==
    /\ tools # <<>>
          => /\ Len(tools) = 22
             /\ \A i, j \in DOMAIN tools : tools[i].name = tools[j].name => i = j
             /\ \A i \in DOMAIN tools : Routed(tools[i].name)
             /\ tools[1].name = "list_devices" /\ tools[22].name = "push_file"
    /\ Served
          => (call.name \in Advertised
                 <=> call.resp # <<TextContent(<<"Unknown tool: ", call.name>>)>>)

\* The catalog was asked for after a device had been selected.
C24_Witness ==
    /\ tools # <<>> /\ current_device = "emulator-5554"

\* The step is a call of call_tool, up to its return or its delay.
Invoked == call' # call /\ call'.phase # "init" /\ call.phase = "init"

AddressedToOwn(c) ==
    (c.name \in DeviceScoped /\ c.runs # <<>>)
        => /\ c.dev0 \notin {None, ""}
           /\ \A i \in DOMAIN c.runs : Targets(c.runs[i].cmd, c.dev0)

(* C26: even if tool invocations are interleaved at their settling delays, *)
(* all adb invocations made by one tool invocation are addressed to the    *)
(* same serial, the one that passed that invocation's "device selected"    *)
(* check: a select_device running during another invocation's delay        *)
(* redirects none of that invocation's adb calls.                          *)
C26_Interleaved ==
    /\ [](AddressedToOwn(call) /\ \A c \in sleeping : AddressedToOwn(c))
    /\ [][\A c \in sleeping \ sleeping' :
             /\ call'.runs = c.runs
             /\ call'.dev0 = c.dev0]_vars

\* A tap_element call ran its dump, pull and tap at one device, another
\* device was selected during its delay, and the call has returned.
C26_Witness ==
    /\ call.name = "tap_element" /\ call.phase = "returned" /\ Len(call.runs) = 3
    /\ call.dev0 = "emulator-5554" /\ current_device = "emulator-5556"
    /\ \A i \in 1..3 : Targets(call.runs[i].cmd, "emulator-5554")

\* The response is the list of the matching nodes or the report that there
\* are none.
MatchesOrNone(resp) ==
    /\ Len(resp) = 1
    /\ \/ resp = MatchReport(<<>>)
       \/ resp[1].text[1] = "Found "

(* C28: for every snapshot that was dumped, pulled and read successfully,  *)
(* find_element responds with the list of matching nodes or with "No       *)
(* matching elements found.", never with the raw "UI Hierarchy:" text,     *)
(* whatever the snapshot holds, an attribute with the word "Error"         *)
(* included.                                                               *)
C28_NeverRawHierarchy ==
    (call.name = "find_element" /\ Truthy(call.dev0) /\ SnapshotsRead # {})
        => /\ MatchesOrNone(call.resp)
           /\ call.resp[1].text[1] # "UI Hierarchy:\n"

\* The snapshot s has the word "Error" in some attribute.
HoldsError(s) == \E i \in DOMAIN s : \E k \in DOMAIN s[i] : Contains(s[i][k], "Error")

\* Apart from snapshots that hold the word "Error", find_element answers
\* with the matches or with the report that there are none.
FindWithoutError ==
    (call.name = "find_element" /\ Truthy(call.dev0))
        => \A s \in SnapshotsRead :
              ~HoldsError(s) => /\ MatchesOrNone(call.resp)
                                /\ call.resp[1].text[1] # "UI Hierarchy:\n"

\* The snapshot s with the criteria has a first match with bracket bounds r.
FirstMatchAt(s, criteria, r) ==
    /\ DOMAIN criteria \cap FourCriteria # {}
    /\ ExactMatches(s, criteria) # <<>>
    /\ Get(ExactMatches(s, criteria)[1], "bounds") = <<RectBounds(r)>>

(* C27: whenever the snapshot holds a node matching the criteria and the   *)
(* first such node has bounds [x1,y1][x2,y2], tap_element issues exactly   *)
(* one input tap command, at the midpoint of that node, whatever the       *)
(* values of the matched nodes' attributes (a text with the word "Error"   *)
(* or the phrase "No matching elements" included).                         *)
C27_TapsFirstMatch ==
    (call.name = "tap_element" /\ Truthy(call.dev0))
        => \A s \in SnapshotsRead : \A r \in Rects :
              FirstMatchAt(s, call.arguments, r)
                 => /\ Len(call.runs) = 3
                    /\ TapsAt(call.runs, (r[1] + r[3]) \div 2, (r[2] + r[4]) \div 2)

\* The snapshot s has the phrase "No matching elements" in some attribute
\* of a node that matches.
MatchHoldsPhrase(s, criteria) ==
    \E i \in DOMAIN ExactMatches(s, criteria) : \E k \in DOMAIN ExactMatches(s, criteria)[i] :
        Contains(ExactMatches(s, criteria)[i][k], "No matching elements")

\* Apart from snapshots that hold the word or a match that holds the
\* phrase, tap_element taps the midpoint of the first match.
TapWithoutWords ==
    (call.name = "tap_element" /\ Truthy(call.dev0))
        => \A s \in SnapshotsRead : \A r \in Rects :
              (/\ FirstMatchAt(s, call.arguments, r)
               /\ ~HoldsError(s) /\ ~MatchHoldsPhrase(s, call.arguments))
                 => /\ Len(call.runs) = 3
                    /\ TapsAt(call.runs, (r[1] + r[3]) \div 2, (r[2] + r[4]) \div 2)

\* tap_element stopped without a tap at a first match whose text is the
\* phrase, in a snapshot without the word "Error".
PhraseStopsTap ==
    /\ call.name = "tap_element" /\ Truthy(call.dev0) /\ Len(call.runs) = 2
    /\ \E s \in SnapshotsRead : \E r \in Rects :
          /\ FirstMatchAt(s, call.arguments, r)
          /\ ~HoldsError(s)
          /\ ExactMatches(s, call.arguments)[1]["text"] = <<"No matching elements">>

\* The capture command of a two-step tool and the device path it writes.
Capture(name) ==
    IF name = "capture_screenshot"
    THEN <<"shell", "screencap", "-p", "/sdcard/screenshot.png">>
    ELSE <<"shell", "uiautomator", "dump", "/sdcard/window_dump.xml">>

\* The command line cmd ends with the words w.
EndsWith(cmd, w) ==
    Len(cmd) >= Len(w) /\ SubSeq(cmd, Len(cmd) - Len(w) + 1, Len(cmd)) = w

\* The command line pulls the device path to some local path.
Pulls(cmd, remote) ==
    Len(cmd) >= 3 /\ SubSeq(cmd, Len(cmd) - 2, Len(cmd) - 1) = <<"pull", remote>>

\* The response of c shows that the local file was opened: it carries the
\* image or the hierarchy, or the error of the read.
FileOpened(c) ==
    \/ \E i \in DOMAIN c.resp : c.resp[i].type = "image"
    \/ /\ c.resp # <<>>
       /\ \/ c.resp[1].text[1] \in {"UI Hierarchy:\n", "Screenshot captured successfully. Saved to: "}
          \/ /\ Len(c.resp[1].text) >= 2
             /\ c.resp[1].text[2] \in {" reading screenshot: ", " reading UI hierarchy: "}

(* C29: in capture_screenshot and get_ui_hierarchy the pull is issued only *)
(* after the on-device capture (screencap to /sdcard/screenshot.png,       *)
(* uiautomator dump to /sdcard/window_dump.xml) has exited 0, and the      *)
(* local file is read only after the pull has exited 0: when the capture   *)
(* fails no pull is issued, and when the pull fails no local file is read  *)
(* and no image or hierarchy content is returned.                          *)
C29_TwoStep ==
    (Served /\ call.name \in {"capture_screenshot", "get_ui_hierarchy"} /\ call.runs # <<>>)
        => /\ Len(call.runs) <= 2
           /\ EndsWith(call.runs[1].cmd, Capture(call.name))
           /\ call.runs[1].code # 0 => Len(call.runs) = 1 /\ ~FileOpened(call)
           /\ Len(call.runs) = 2
                 => /\ call.runs[1].code = 0
                    /\ Pulls(call.runs[2].cmd, Capture(call.name)[Len(Capture(call.name))])
                    /\ call.runs[2].code # 0 => ~FileOpened(call)
           /\ FileOpened(call)
                 => /\ Len(call.runs) = 2
                    /\ call.runs[1].code = 0 /\ call.runs[2].code = 0

\* The pull of get_ui_hierarchy failed while the local path held a readable
\* dump of an earlier call, and the response is the failure of the pull.
C29_Witness ==
    /\ call.name = "get_ui_hierarchy" /\ Len(call.runs) = 2
    /\ call.runs[2].code # 0 /\ call.env.file.readable
    /\ call.resp[1].text[1] = "Failed to pull UI dump: "

====
